---- MODULE Spec2Model ----
(***************************************************************************)
(* Model of the Wells Fargo payment matching core of dolla-bucks:          *)
(*   old_WF/payment_processor/WF/services/matching_service.py              *)
(*   old_WF/payment_processor/WF/services/confidence_service.py            *)
(*   old_WF/payment_processor/WF/services/payment_service.py               *)
(*                                                                         *)
(* Python values are tagged records (None, str, int, and "absent" for a    *)
(* key a dict does not hold); strings are sequences of one-character       *)
(* strings; scores are exact rationals <<numerator, denominator>> in       *)
(* lowest terms (the source computes them in binary floating point).       *)
(***************************************************************************)
EXTENDS Integers, Sequences, FiniteSets, TLC

\* ------------------------------------------------------------------------
\* Python values
\* ------------------------------------------------------------------------

None == [t |-> "none", s |-> <<>>, n |-> 0]

Absent == [t |-> "absent", s |-> <<>>, n |-> 0]

PyStr(chars) == [t |-> "str", s |-> chars, n |-> 0]

PyInt(k) == [t |-> "int", s |-> <<>>, n |-> k]

\* dict.get(key): None when the key is absent
Get(d, key) == IF d[key].t = "absent" THEN None ELSE d[key]

\* dict.get(key, default)
GetDefault(d, key, default) == IF d[key].t = "absent" THEN default ELSE d[key]

\* bool(v): None, "" and 0 are falsy
Truthy(v) ==
    \/ v.t = "str" /\ v.s # <<>>
    \/ v.t = "int" /\ v.n # 0

DigitSeq == <<"0", "1", "2", "3", "4", "5", "6", "7", "8", "9">>

DigitChars == {DigitSeq[i] : i \in 1..Len(DigitSeq)}

DigitVal(c) == (CHOOSE i \in 1..Len(DigitSeq) : DigitSeq[i] = c) - 1

RECURSIVE NatToStr(_)
NatToStr(k) ==
    IF k < 10 THEN <<DigitSeq[k + 1]>>
    ELSE NatToStr(k \div 10) \o <<DigitSeq[(k % 10) + 1]>>

\* str(v)
Str(v) ==
    CASE v.t = "str" -> v.s
      [] v.t = "int" -> IF v.n < 0 THEN <<"-">> \o NatToStr(0 - v.n) ELSE NatToStr(v.n)
      [] OTHER -> <<"N", "o", "n", "e">>

\* str.isdigit(): non-empty and every character a digit
IsDigit(chars) == chars # <<>> /\ \A i \in 1..Len(chars) : chars[i] \in DigitChars

\* int(chars) / float(chars) of a digit string
RECURSIVE ParseNat(_)
ParseNat(chars) ==
    IF chars = <<>> THEN 0
    ELSE 10 * ParseNat(SubSeq(chars, 1, Len(chars) - 1)) + DigitVal(chars[Len(chars)])

\* ------------------------------------------------------------------------
\* Exact rationals
\* ------------------------------------------------------------------------

RECURSIVE Gcd(_, _)
Gcd(a, b) == IF b = 0 THEN a ELSE Gcd(b, a % b)

Reduce(n, d, g) == <<n \div g, d \div g>>

Frac(n, d) == IF n = 0 THEN <<0, 1>> ELSE Reduce(n, d, Gcd(n, d))

FAdd(x, y) == Frac(x[1] * y[2] + y[1] * x[2], x[2] * y[2])

FMul(x, y) == Frac(x[1] * y[1], x[2] * y[2])

FLeq(x, y) == x[1] * y[2] <= y[1] * x[2]

FLt(x, y) == x[1] * y[2] < y[1] * x[2]

FMax(x, y) == IF FLt(x, y) THEN y ELSE x

Zero == <<0, 1>>

One == <<1, 1>>

\* ------------------------------------------------------------------------
\* Characters and strings
\* ------------------------------------------------------------------------

LowerSeq ==
    <<"a", "b", "c", "d", "e", "f", "g", "h", "i", "j", "k", "l", "m",
      "n", "o", "p", "q", "r", "s", "t", "u", "v", "w", "x", "y", "z">>

UpperSeq ==
    <<"A", "B", "C", "D", "E", "F", "G", "H", "I", "J", "K", "L", "M",
      "N", "O", "P", "Q", "R", "S", "T", "U", "V", "W", "X", "Y", "Z">>

LowerChars == {LowerSeq[i] : i \in 1..Len(LowerSeq)}

UpperChars == {UpperSeq[i] : i \in 1..Len(UpperSeq)}

\* \w of the re module: letters, digits and the underscore
WordChars == LowerChars \cup UpperChars \cup DigitChars \cup {"_"}

\* \s of the re module (the space is the only whitespace the model draws)
SpaceChars == {" "}

\* str.lower() on one character
LowerChar(c) ==
    IF c \in UpperChars
    THEN LowerSeq[CHOOSE i \in 1..Len(UpperSeq) : UpperSeq[i] = c]
    ELSE c

\* str.lower()
ToLower(chars) == [i \in 1..Len(chars) |-> LowerChar(chars[i])]

\* the characters of chars that are in keep, in order (re.sub of the complement)
RECURSIVE KeepChars(_, _)
KeepChars(chars, keep) ==
    IF chars = <<>> THEN <<>>
    ELSE IF Head(chars) \in keep
         THEN <<Head(chars)>> \o KeepChars(Tail(chars), keep)
         ELSE KeepChars(Tail(chars), keep)

\* str.startswith
StartsWith(chars, prefix) ==
    Len(prefix) <= Len(chars) /\ SubSeq(chars, 1, Len(prefix)) = prefix

\* "needle in hay" on strings
Contains(needle, hay) ==
    \E i \in 0..(Len(hay) - Len(needle)) : SubSeq(hay, i + 1, i + Len(needle)) = needle

\* str.split(): the maximal runs of non-whitespace characters, in order
RECURSIVE SplitFrom(_, _)
SplitFrom(chars, cur) ==
    IF chars = <<>> THEN (IF cur = <<>> THEN <<>> ELSE <<cur>>)
    ELSE IF Head(chars) \in SpaceChars
         THEN (IF cur = <<>> THEN <<>> ELSE <<cur>>) \o SplitFrom(Tail(chars), <<>>)
         ELSE SplitFrom(Tail(chars), Append(cur, Head(chars)))

Split(chars) == SplitFrom(chars, <<>>)

\* " ".join(tokens)
RECURSIVE JoinSpace(_)
JoinSpace(tokens) ==
    IF tokens = <<>> THEN <<>>
    ELSE IF Len(tokens) = 1 THEN tokens[1]
    ELSE tokens[1] \o <<" ">> \o JoinSpace(Tail(tokens))

\* re.sub(r'\s+', ' ', text).strip()
CollapseSpaces(chars) == JoinSpace(Split(chars))

\* ------------------------------------------------------------------------
\* matching_service.py
\* ------------------------------------------------------------------------

Prefixes == <<<<"m", "r">>, <<"m", "r", "s">>, <<"m", "s">>, <<"d", "r">>, <<"p", "r", "o", "f">>>>

\* the loop over prefixes with its break: the first prefix that matches is cut
RECURSIVE StripPrefix(_, _)
StripPrefix(text, i) ==
    IF i > Len(Prefixes) THEN text
    ELSE IF StartsWith(text, Prefixes[i] \o <<" ">>)
         THEN SubSeq(text, Len(Prefixes[i]) + 2, Len(text))
         ELSE StripPrefix(text, i + 1)

\* MatchingService._normalize_string
NormalizeString(text) ==
    IF text = <<>> THEN <<>>
    ELSE CollapseSpaces(KeepChars(StripPrefix(ToLower(text), 1), WordChars \cup SpaceChars))

\* MatchingService._normalize_account
NormalizeAccount(account) ==
    IF account = <<>> THEN <<>>
    ELSE KeepChars(account, LowerChars \cup UpperChars \cup DigitChars)

\* MatchingService._check_exact_match
CheckExactMatch(text1, text2) == IF text1 = text2 THEN One ELSE Zero

\* MatchingService._check_contains
CheckContains(text1, text2) ==
    IF Contains(text1, text2) THEN FMul(Frac(8, 10), Frac(Len(text1), Len(text2)))
    ELSE IF Contains(text2, text1) THEN FMul(Frac(8, 10), Frac(Len(text2), Len(text1)))
    ELSE Zero

SeqToSet(s) == {s[i] : i \in 1..Len(s)}

\* _check_token_match, lines 251-264: on the token sets
TokenSetMatch(tokens1, tokens2) ==
    IF tokens1 = {} \/ tokens2 = {} THEN Zero
    ELSE FMul(Frac(85, 100),
              Frac(Cardinality(tokens1 \cap tokens2), Cardinality(tokens1 \cup tokens2)))

\* MatchingService._check_token_match
CheckTokenMatch(text1, text2) == TokenSetMatch(SeqToSet(Split(text1)), SeqToSet(Split(text2)))

\* length of the common run of a and b that starts at a[i], b[j] and stays
\* within a[..ahi], b[..bhi]
RECURSIVE RunLen(_, _, _, _, _, _)
RunLen(a, b, i, j, ahi, bhi) ==
    IF i > ahi \/ j > bhi THEN 0
    ELSE IF a[i] # b[j] THEN 0
    ELSE 1 + RunLen(a, b, i + 1, j + 1, ahi, bhi)

\* of two blocks <<i, j, k>>, the first unless the second is strictly longer
LongerBlock(first, second) == IF first[3] >= second[3] THEN first ELSE second

\* the longest common block that starts at a[i] and at some b[j2], j2 >= j:
\* of the longest ones, the one with the least j2
RECURSIVE LongestInRow(_, _, _, _, _, _)
LongestInRow(a, b, ahi, bhi, i, j) ==
    IF j > bhi THEN <<i, j, 0>>
    ELSE LongerBlock(<<i, j, RunLen(a, b, i, j, ahi, bhi)>>,
                     LongestInRow(a, b, ahi, bhi, i, j + 1))

\* the longest common block that starts at some a[i2], i2 >= i: of the longest
\* ones, the one with the least i2 and then the least j
RECURSIVE LongestFrom(_, _, _, _, _, _)
LongestFrom(a, b, ahi, blo, bhi, i) ==
    IF i > ahi THEN <<i, blo, 0>>
    ELSE LongerBlock(LongestInRow(a, b, ahi, bhi, i, blo),
                     LongestFrom(a, b, ahi, blo, bhi, i + 1))

\* difflib.SequenceMatcher.find_longest_match without junk: a longest common
\* block of a[alo..ahi] and b[blo..bhi], the one starting earliest in a and,
\* among those, earliest in b
FindLongestMatch(a, b, alo, ahi, blo, bhi) ==
    LongestFrom(a, b, ahi, blo, bhi, alo)

\* the total size of difflib.SequenceMatcher.get_matching_blocks: the longest
\* block m of a[alo..ahi] and b[blo..bhi], then the blocks to its left and right
RECURSIVE MatchingSize(_, _, _, _, _, _)
RECURSIVE MatchingSizeAround(_, _, _, _, _, _, _)
MatchingSizeAround(a, b, alo, ahi, blo, bhi, m) ==
    IF m[3] = 0 THEN 0
    ELSE m[3]
         + MatchingSize(a, b, alo, m[1] - 1, blo, m[2] - 1)
         + MatchingSize(a, b, m[1] + m[3], ahi, m[2] + m[3], bhi)

MatchingSize(a, b, alo, ahi, blo, bhi) ==
    IF alo > ahi \/ blo > bhi THEN 0
    ELSE MatchingSizeAround(a, b, alo, ahi, blo, bhi,
                            FindLongestMatch(a, b, alo, ahi, blo, bhi))

\* difflib.SequenceMatcher(None, a, b).ratio()
SequenceRatio(a, b) ==
    IF Len(a) + Len(b) = 0 THEN One
    ELSE Frac(2 * MatchingSize(a, b, 1, Len(a), 1, Len(b)), Len(a) + Len(b))

\* MatchingService._check_sequence_match
CheckSequenceMatch(text1, text2) ==
    IF text1 = <<>> \/ text2 = <<>> THEN Zero
    ELSE FMul(Frac(9, 10), SequenceRatio(text1, text2))

\* calculate_name_similarity, lines 54-72: on the normalized names
NormalizedNameSimilarity(n1, n2) ==
    IF n1 = n2 THEN One
    ELSE FMax(FMax(CheckExactMatch(n1, n2), CheckContains(n1, n2)),
              FMax(CheckTokenMatch(n1, n2), CheckSequenceMatch(n1, n2)))

\* a variant of CalculateNameSimilarity without the test for empty arguments
CalculateNameSimilarityUnguarded(name1, name2) ==
    NormalizedNameSimilarity(NormalizeString(name1), NormalizeString(name2))

\* MatchingService.calculate_name_similarity
CalculateNameSimilarity(name1, name2) ==
    IF name1 = <<>> \/ name2 = <<>> THEN Zero
    ELSE NormalizedNameSimilarity(NormalizeString(name1), NormalizeString(name2))

Min(x, y) == IF x < y THEN x ELSE y

Max(x, y) == IF x < y THEN y ELSE x

\* a variant of NormalizedAccountSimilarity without the test for equality
NormalizedAccountSimilarityUnequal(a1, a2) ==
    IF (Contains(a1, a2) \/ Contains(a2, a1)) /\ Max(Len(a1), Len(a2)) > 0
    THEN FMul(Frac(8, 10), Frac(Min(Len(a1), Len(a2)), Max(Len(a1), Len(a2))))
    ELSE FMul(CheckSequenceMatch(a1, a2), Frac(8, 10))

\* a variant of NormalizedAccountSimilarity that scales the ratio of the
\* sequence matcher by 0.8 alone
NormalizedAccountSimilarityOfRatio(a1, a2) ==
    IF a1 = a2 THEN One
    ELSE IF (Contains(a1, a2) \/ Contains(a2, a1)) /\ Max(Len(a1), Len(a2)) > 0
         THEN FMul(Frac(8, 10), Frac(Min(Len(a1), Len(a2)), Max(Len(a1), Len(a2))))
         ELSE FMul(Frac(8, 10), SequenceRatio(a1, a2))

\* calculate_account_similarity, lines 95-110: on the normalized accounts
NormalizedAccountSimilarity(a1, a2) ==
    IF a1 = a2 THEN One
    ELSE IF (Contains(a1, a2) \/ Contains(a2, a1)) /\ Max(Len(a1), Len(a2)) > 0
         THEN FMul(Frac(8, 10), Frac(Min(Len(a1), Len(a2)), Max(Len(a1), Len(a2))))
         ELSE FMul(CheckSequenceMatch(a1, a2), Frac(8, 10))

\* MatchingService.calculate_account_similarity
CalculateAccountSimilarity(account1, account2) ==
    IF account1 = <<>> \/ account2 = <<>> THEN Zero
    ELSE NormalizedAccountSimilarity(NormalizeAccount(account1), NormalizeAccount(account2))

\* ------------------------------------------------------------------------
\* confidence_service.py
\* ------------------------------------------------------------------------

\* a variant of WeightAccount under which the weights sum to more than 1
WeightAccountHalf == Frac(50, 100)

\* ConfidenceService.__init__: self.weights
WeightName == Frac(35, 100)

WeightCompany == Frac(25, 100)

WeightAccount == Frac(40, 100)

\* ConfidenceService.__init__: the thresholds
HighConfidenceThreshold == Frac(60, 100)

MediumConfidenceThreshold == Frac(50, 100)

LowConfidenceThreshold == Frac(40, 100)

\* the score of a direct account match of a client
DirectAccountScore == Frac(95, 100)

\* the payment's account fields, in the order the confidence service reads them
AccountFields == <<"AccountNumber", "FullSubAccount", "ACCT", "AcctNo", "SubAccount">>

\* ConfidenceService.is_high_confidence
IsHighConfidence(confidence) == FLeq(HighConfidenceThreshold, confidence)

\* a variant of IsMediumConfidence whose upper bound is inclusive
IsMediumConfidenceUpTo(confidence) ==
    FLeq(MediumConfidenceThreshold, confidence) /\ FLeq(confidence, HighConfidenceThreshold)

\* ConfidenceService.is_medium_confidence
IsMediumConfidence(confidence) ==
    FLeq(MediumConfidenceThreshold, confidence) /\ FLt(confidence, HighConfidenceThreshold)

\* ConfidenceService.is_low_confidence
IsLowConfidence(confidence) ==
    FLeq(LowConfidenceThreshold, confidence) /\ FLt(confidence, MediumConfidenceThreshold)

\* a variant of HasDirectIdMatch that compares the customer ids only
HasDirectIdMatchOnCustId(wf_payment, customer) ==
    /\ Truthy(Get(wf_payment, "CustID"))
    /\ Truthy(Get(customer, "customer_id"))
    /\ Str(wf_payment["CustID"]) = Str(customer["customer_id"])

\* ConfidenceService._has_direct_id_match
HasDirectIdMatch(wf_payment, customer) ==
    \/ /\ Truthy(Get(wf_payment, "CustID"))
       /\ Truthy(Get(customer, "customer_id"))
       /\ Str(wf_payment["CustID"]) = Str(customer["customer_id"])
    \/ /\ Truthy(Get(customer, "primary_client_id"))
       /\ Truthy(Get(wf_payment, "AccountNumber"))
       /\ Str(customer["primary_client_id"]) = Str(wf_payment["AccountNumber"])

\* ConfidenceService._has_direct_account_match
HasDirectAccountMatch(wf_payment, client) ==
    /\ Truthy(Get(client, "account_number"))
    /\ \E i \in 1..Len(AccountFields) :
          /\ Truthy(Get(wf_payment, AccountFields[i]))
          /\ Str(wf_payment[AccountFields[i]]) = Str(client["account_number"])

\* ConfidenceService._calculate_name_similarity
NameSimilarity(wf_payment, entity) ==
    IF ~Truthy(Get(wf_payment, "CustName")) \/ ~Truthy(Get(entity, "name")) THEN Zero
    ELSE CalculateNameSimilarity(wf_payment["CustName"].s, entity["name"].s)

\* ConfidenceService._calculate_company_similarity
CompanySimilarity(wf_payment, entity) ==
    IF ~Truthy(Get(wf_payment, "CompName")) \/ ~Truthy(Get(entity, "company")) THEN Zero
    ELSE CalculateNameSimilarity(wf_payment["CompName"].s, entity["company"].s)

\* a variant of MaxAccountSimilarity that looks at AccountNumber alone
AccountNumberSimilarity(wf_payment, entity_account, i, max_similarity) ==
    IF Truthy(Get(wf_payment, "AccountNumber"))
    THEN CalculateAccountSimilarity(Str(wf_payment["AccountNumber"]), entity_account)
    ELSE max_similarity

\* the loop of _calculate_account_similarity over the account fields from i on
RECURSIVE MaxAccountSimilarity(_, _, _, _)
MaxAccountSimilarity(wf_payment, entity_account, i, max_similarity) ==
    IF i > Len(AccountFields) THEN max_similarity
    ELSE IF Truthy(Get(wf_payment, AccountFields[i]))
         THEN MaxAccountSimilarity(wf_payment, entity_account, i + 1,
                  FMax(max_similarity,
                       CalculateAccountSimilarity(Str(wf_payment[AccountFields[i]]),
                                                  entity_account)))
         ELSE MaxAccountSimilarity(wf_payment, entity_account, i + 1, max_similarity)

\* ConfidenceService._calculate_account_similarity
AccountSimilarity(wf_payment, entity) ==
    IF Truthy(Get(entity, "primary_client_id"))
    THEN MaxAccountSimilarity(wf_payment, Str(entity["primary_client_id"]), 1, Zero)
    ELSE IF Truthy(Get(entity, "account_number"))
         THEN MaxAccountSimilarity(wf_payment, Str(entity["account_number"]), 1, Zero)
         ELSE Zero

\* the weighted sum of the three similarities
WeightedConfidence(wf_payment, entity) ==
    FAdd(FAdd(FMul(WeightName, NameSimilarity(wf_payment, entity)),
              FMul(WeightCompany, CompanySimilarity(wf_payment, entity))),
         FMul(WeightAccount, AccountSimilarity(wf_payment, entity)))

\* ConfidenceService.calculate_customer_match_confidence
CalculateCustomerMatchConfidence(wf_payment, customer) ==
    IF HasDirectIdMatch(wf_payment, customer) THEN One
    ELSE WeightedConfidence(wf_payment, customer)

\* ConfidenceService.calculate_client_match_confidence
CalculateClientMatchConfidence(wf_payment, client) ==
    IF HasDirectAccountMatch(wf_payment, client) THEN DirectAccountScore
    ELSE WeightedConfidence(wf_payment, client)

\* a truthy name or company that is not a str makes text.lower() raise
\* AttributeError inside _normalize_string
NameScoringRaises(wf_payment, entity) ==
    \/ /\ Truthy(Get(wf_payment, "CustName")) /\ Truthy(Get(entity, "name"))
       /\ (wf_payment["CustName"].t # "str" \/ entity["name"].t # "str")
    \/ /\ Truthy(Get(wf_payment, "CompName")) /\ Truthy(Get(entity, "company"))
       /\ (wf_payment["CompName"].t # "str" \/ entity["company"].t # "str")

CustomerScoringRaises(wf_payment, customer) ==
    ~HasDirectIdMatch(wf_payment, customer) /\ NameScoringRaises(wf_payment, customer)

ClientScoringRaises(wf_payment, client) ==
    ~HasDirectAccountMatch(wf_payment, client) /\ NameScoringRaises(wf_payment, client)

\* ------------------------------------------------------------------------
\* Records: wf payments, customers, clients
\* ------------------------------------------------------------------------

PaymentFields ==
    {"ID", "CustID", "CustName", "CompName", "AccountNumber", "FullSubAccount",
     "ACCT", "AcctNo", "SubAccount", "BankReference"}

EntityFields ==
    {"kind", "customer_id", "client_id", "name", "company", "primary_client_id",
     "account_number"}

\* a wf payment row; the fields left out are keys the row does not hold
WfPayment(id, cust_id, cust_name, comp_name, account_number, acct, bank_reference) ==
    [f \in PaymentFields |->
        CASE f = "ID" -> id
          [] f = "CustID" -> cust_id
          [] f = "CustName" -> cust_name
          [] f = "CompName" -> comp_name
          [] f = "AccountNumber" -> account_number
          [] f = "ACCT" -> acct
          [] f = "BankReference" -> bank_reference
          [] OTHER -> Absent]

Customer(customer_id, name, company, primary_client_id) ==
    [f \in EntityFields |->
        CASE f = "kind" -> PyStr(<<"c", "u", "s", "t">>)
          [] f = "customer_id" -> customer_id
          [] f = "name" -> name
          [] f = "company" -> company
          [] f = "primary_client_id" -> primary_client_id
          [] OTHER -> Absent]

Client(client_id, name, company, account_number) ==
    [f \in EntityFields |->
        CASE f = "kind" -> PyStr(<<"c", "l", "n", "t">>)
          [] f = "client_id" -> client_id
          [] f = "name" -> name
          [] f = "company" -> company
          [] f = "account_number" -> account_number
          [] OTHER -> Absent]

\* Python's None where a match is expected
NoMatch == [f \in EntityFields |-> Absent]

\* ------------------------------------------------------------------------
\* The database the repositories read: sample rows
\* ------------------------------------------------------------------------

CustomerTable ==
    <<Customer(PyInt(4021), PyStr(<<"J", "o", "h", "n", " ", "S", "m", "i", "t", "h">>), None, PyInt(55)),
      Customer(PyInt(7), PyStr(<<"A", "n", "n", " ", "L", "e", "e">>), PyStr(<<"A", "c", "m", "e">>), None),
      Customer(PyInt(8), PyStr(<<"A", "l", " ", "R", "o", "e">>), None, PyInt(90))>>

ClientTable ==
    <<Client(PyInt(55), PyStr(<<"B", "o", "b">>), PyStr(<<"z", "e", "d", " ", "c">>), PyStr(<<"7", "7", "7">>)),
      Client(PyInt(56), PyStr(<<"A", "l", " ", "R", "o", "e">>), None, None)>>

\* customer id -> the client ids linked to the customer (customer 7 has none)
CustomerClientIds ==
    [id \in {4021, 7, 8} |-> IF id = 4021 THEN <<55>> ELSE IF id = 8 THEN <<56, 55>> ELSE <<>>]

\* the distinct account ids of the account table
AccountIdTable == {55, 777}

\* the rows of the wf table in the order get_unapplied_wf_payments yields them
WfPaymentTable ==
    <<WfPayment(PyInt(8), None, PyStr(<<"a", "l">>), None, None, PyStr(<<"9", "-", "0">>), None),
      WfPayment(PyInt(1), PyStr(<<"4", "0", "2", "1">>), PyStr(<<"J", " ", "S", "m", "i", "t", "h">>), Absent, Absent, Absent, Absent),
      WfPayment(PyInt(2), None, PyStr(<<"a", "n", "n", " ", "l", "e", "e">>), PyStr(<<"A", "C", "M", "E">>), None, Absent, PyStr(<<"R", "2">>)),
      WfPayment(PyInt(3), None, None, None, PyStr(<<"7", "7", "7">>), Absent, PyStr(<<"R", "3">>)),
      WfPayment(PyInt(4), PyStr(<<"n", "/", "a">>), PyStr(<<"b", "o", "b">>), PyStr(<<"z", "e", "d", " ", "c", "o">>), PyStr(<<"n", "/", "a">>), Absent, None),
      WfPayment(PyInt(5), None, None, None, None, None, None),
      WfPayment(None, PyStr(<<"4", "0", "2", "1">>), PyStr(<<"J", " ", "S", "m", "i", "t", "h">>), None, None, None, PyStr(<<"R", "6">>)),
      WfPayment(PyInt(7), PyStr(<<"a", "b", "c">>), None, None, PyInt(55), Absent, PyStr(<<"R", "3">>))>>

\* ------------------------------------------------------------------------
\* The repositories (WF.repositories.*): lookups over the tables
\* ------------------------------------------------------------------------

\* a case-insensitive substring match of a query against a column value
ColumnLike(value, query) ==
    value.t = "str" /\ query.t = "str" /\ Contains(ToLower(query.s), ToLower(value.s))

\* customer_repository.get_customer_by_id: zero or one customer
GetCustomerById(customer_id) ==
    LET Test(row) == row["customer_id"] = PyInt(customer_id)
        rows == SelectSeq(CustomerTable, Test)
    IN  IF rows = <<>> THEN <<>> ELSE <<rows[1]>>

\* customer_repository.get_customers_by_primary_client_ids([account_id])
GetCustomersByPrimaryClientIds(account_id) ==
    LET Test(row) == row["primary_client_id"] = PyInt(account_id)
    IN  SelectSeq(CustomerTable, Test)

\* customer_repository.get_customers_by_name
GetCustomersByName(name) ==
    LET Test(row) == ColumnLike(row["name"], name)
    IN  SelectSeq(CustomerTable, Test)

\* customer_repository.get_customers_by_company
GetCustomersByCompany(company) ==
    LET Test(row) == ColumnLike(row["company"], company)
    IN  SelectSeq(CustomerTable, Test)

\* customer_repository.get_client_ids_for_customer
GetClientIdsForCustomer(customer_id) ==
    IF customer_id.t = "int" /\ customer_id.n \in DOMAIN CustomerClientIds
    THEN CustomerClientIds[customer_id.n]
    ELSE <<>>

\* client_repository.get_client_by_account_number: zero or one client
GetClientByAccountNumber(account_number) ==
    LET Test(row) == Truthy(row["account_number"]) /\ Str(row["account_number"]) = account_number
        rows == SelectSeq(ClientTable, Test)
    IN  IF rows = <<>> THEN <<>> ELSE <<rows[1]>>

\* client_repository.get_clients_by_name
GetClientsByName(name) ==
    LET Test(row) == ColumnLike(row["name"], name)
    IN  SelectSeq(ClientTable, Test)

\* client_repository.get_clients_by_company
GetClientsByCompany(company) ==
    LET Test(row) == ColumnLike(row["company"], company)
    IN  SelectSeq(ClientTable, Test)

\* payment_repository.get_unapplied_wf_payments(limit): the first limit rows
\* of the wf table whose applied flag is not set
GetUnappliedWfPayments(limit, applied_ids) ==
    LET Test(row) == row["ID"] \notin applied_ids
        rows == SelectSeq(WfPaymentTable, Test)
    IN  SubSeq(rows, 1, IF Len(rows) < limit THEN Len(rows) ELSE limit)

\* payment_repository.create_or_update_payment_az on a table keyed by
\* payment_reference: the table afterwards
CreateOrUpdatePaymentAz(az, client_id, payment_reference) ==
    [r \in DOMAIN az \cup {payment_reference} |->
        IF r = payment_reference THEN client_id ELSE az[r]]

\* ------------------------------------------------------------------------
\* payment_service.py: candidate search
\* ------------------------------------------------------------------------

\* the collaborator calls that can fail
CustomerLookups ==
    {"get_customer_by_id", "get_customers_by_primary_client_ids",
     "get_customers_by_name", "get_customers_by_company"}

ClientLookups ==
    {"get_client_by_account_number", "get_clients_by_name", "get_clients_by_company"}

ApplyCalls ==
    {"get_client_ids_for_customer", "create_or_update_payment_az",
     "update_wf_payment_applied_status"}

Collaborators == CustomerLookups \cup ClientLookups \cup ApplyCalls

\* the calls of confidence_service a search makes; they can fail too
ScoringCalls == {"score_customer", "score_client"}

\* the account fields _find_customer_match and _find_client_match loop over
LookupAccountFields == <<"AccountNumber", "FullSubAccount", "ACCT", "AcctNo">>

\* the locals of a search: best_match, best_confidence, whether the search has
\* returned, whether an exception is propagating, and the calls made so far
NewSearch(calls) ==
    [best |-> NoMatch, conf |-> Zero, done |-> FALSE, exc |-> FALSE, calls |-> calls]

\* a call that came back is <<name, TRUE>>, one that raised is <<name, FALSE>>
Called(fs, call) == [fs EXCEPT !.calls = Append(@, <<call, TRUE>>)]

Raised(fs) == [fs EXCEPT !.exc = TRUE]

FailedCall(fs, call) == [fs EXCEPT !.calls = Append(@, <<call, FALSE>>), !.exc = TRUE]

\* a variant of Consider that keeps the candidate scored last
ConsiderLast(fs, candidate, confidence) ==
    [fs EXCEPT !.best = candidate, !.conf = confidence,
               !.done = IsHighConfidence(confidence)]

\* "if confidence > best_confidence: ...; if is_high_confidence: return"
Consider(fs, candidate, confidence) ==
    IF FLt(fs.conf, confidence)
    THEN [fs EXCEPT !.best = candidate, !.conf = confidence,
                    !.done = IsHighConfidence(confidence)]
    ELSE fs

\* "for customer in customers": score each candidate until the search returns
\* or the scoring raises
RECURSIVE ScoreCustomers(_, _, _, _, _)
ScoreCustomers(wf_payment, fail, customers, i, fs) ==
    IF i > Len(customers) \/ fs.done \/ fs.exc THEN fs
    ELSE IF "score_customer" \in fail \/ CustomerScoringRaises(wf_payment, customers[i])
         THEN FailedCall(fs, "score_customer")
         ELSE ScoreCustomers(wf_payment, fail, customers, i + 1,
                  Consider(Called(fs, "score_customer"), customers[i],
                           CalculateCustomerMatchConfidence(wf_payment, customers[i])))

RECURSIVE ScoreClients(_, _, _, _, _)
ScoreClients(wf_payment, fail, clients, i, fs) ==
    IF i > Len(clients) \/ fs.done \/ fs.exc THEN fs
    ELSE IF "score_client" \in fail \/ ClientScoringRaises(wf_payment, clients[i])
         THEN FailedCall(fs, "score_client")
         ELSE ScoreClients(wf_payment, fail, clients, i + 1,
                  Consider(Called(fs, "score_client"), clients[i],
                           CalculateClientMatchConfidence(wf_payment, clients[i])))

\* "except: pass": the exception is dropped and the search goes on
Swallow(fs) == [fs EXCEPT !.exc = FALSE]

\* a variant of CustomerByIdStage that converts CustID with int() before the
\* try, without testing isdigit() first
CustomerByIdStageConverting(wf_payment, fail, fs) ==
    LET cust_id == Get(wf_payment, "CustID")
    IN  IF ~Truthy(cust_id) THEN fs
        ELSE IF cust_id.t # "str" \/ ~IsDigit(cust_id.s) THEN Raised(fs)
        ELSE IF "get_customer_by_id" \in fail
             THEN Swallow(FailedCall(fs, "get_customer_by_id"))
             ELSE Swallow(ScoreCustomers(wf_payment, fail, GetCustomerById(ParseNat(cust_id.s)), 1,
                                         Called(fs, "get_customer_by_id")))

\* _find_customer_match, lines 194-214: the direct customer id
CustomerByIdStage(wf_payment, fail, fs) ==
    LET cust_id == Get(wf_payment, "CustID")
    IN  IF ~Truthy(cust_id) THEN fs
        ELSE IF cust_id.t # "str" THEN Raised(fs)
        ELSE IF ~IsDigit(cust_id.s) THEN fs
        ELSE IF "get_customer_by_id" \in fail
             THEN Swallow(FailedCall(fs, "get_customer_by_id"))
             ELSE Swallow(ScoreCustomers(wf_payment, fail, GetCustomerById(ParseNat(cust_id.s)), 1,
                                         Called(fs, "get_customer_by_id")))

\* _find_customer_match, lines 218-239: one account field, holding value;
\* account_ids.loaded is FALSE while initialize() has not set self.account_ids
CustomerByAccountField(wf_payment, fail, account_ids, value, fs) ==
    IF ~(Truthy(value) /\ IsDigit(Str(value))) THEN fs
    ELSE IF ~account_ids.loaded THEN Swallow(Raised(fs))
    ELSE IF ParseNat(Str(value)) \notin account_ids.ids THEN fs
    ELSE IF "get_customers_by_primary_client_ids" \in fail
         THEN Swallow(FailedCall(fs, "get_customers_by_primary_client_ids"))
         ELSE Swallow(ScoreCustomers(wf_payment, fail,
                          GetCustomersByPrimaryClientIds(ParseNat(Str(value))), 1,
                          Called(fs, "get_customers_by_primary_client_ids")))

\* _find_customer_match, lines 216-239: the account fields from i on
RECURSIVE CustomerByAccountStage(_, _, _, _, _)
CustomerByAccountStage(wf_payment, fail, account_ids, i, fs) ==
    IF i > Len(LookupAccountFields) \/ fs.done \/ fs.exc THEN fs
    ELSE CustomerByAccountStage(wf_payment, fail, account_ids, i + 1,
             CustomerByAccountField(wf_payment, fail, account_ids,
                                    Get(wf_payment, LookupAccountFields[i]), fs))

\* a variant of CustomerByNameStage that drops an exception of the scoring, as
\* the first two stages do
CustomerByNameStageSkipping(wf_payment, fail, fs) ==
    IF fs.done \/ fs.exc \/ ~Truthy(Get(wf_payment, "CustName")) THEN fs
    ELSE IF "get_customers_by_name" \in fail
         THEN FailedCall(fs, "get_customers_by_name")
         ELSE Swallow(ScoreCustomers(wf_payment, fail, GetCustomersByName(wf_payment["CustName"]), 1,
                                     Called(fs, "get_customers_by_name")))

\* _find_customer_match, lines 241-256: the customer name
CustomerByNameStage(wf_payment, fail, fs) ==
    IF fs.done \/ fs.exc \/ ~Truthy(Get(wf_payment, "CustName")) THEN fs
    ELSE IF "get_customers_by_name" \in fail
         THEN FailedCall(fs, "get_customers_by_name")
         ELSE ScoreCustomers(wf_payment, fail, GetCustomersByName(wf_payment["CustName"]), 1,
                             Called(fs, "get_customers_by_name"))

\* a variant of CustomerByCompanyStage that is reached after the search returned
CustomerByCompanyStageAfterReturn(wf_payment, fail, fs) ==
    IF fs.exc \/ ~Truthy(Get(wf_payment, "CompName")) THEN fs
    ELSE IF "get_customers_by_company" \in fail
         THEN FailedCall(fs, "get_customers_by_company")
         ELSE ScoreCustomers(wf_payment, fail, GetCustomersByCompany(wf_payment["CompName"]), 1,
                             Called([fs EXCEPT !.done = FALSE], "get_customers_by_company"))

\* _find_customer_match, lines 258-273: the company name
CustomerByCompanyStage(wf_payment, fail, fs) ==
    IF fs.done \/ fs.exc \/ ~Truthy(Get(wf_payment, "CompName")) THEN fs
    ELSE IF "get_customers_by_company" \in fail
         THEN FailedCall(fs, "get_customers_by_company")
         ELSE ScoreCustomers(wf_payment, fail, GetCustomersByCompany(wf_payment["CompName"]), 1,
                             Called(fs, "get_customers_by_company"))

\* PaymentMapperService._find_customer_match
FindCustomerMatch(wf_payment, fail, account_ids, calls) ==
    CustomerByCompanyStage(wf_payment, fail,
        CustomerByNameStage(wf_payment, fail,
            CustomerByAccountStage(wf_payment, fail, account_ids, 1,
                CustomerByIdStage(wf_payment, fail, NewSearch(calls)))))

\* _find_client_match, lines 292-306: one account field, holding value
ClientByAccountField(wf_payment, fail, value, fs) ==
    IF ~Truthy(value) THEN fs
    ELSE IF "get_client_by_account_number" \in fail
         THEN FailedCall(fs, "get_client_by_account_number")
         ELSE ScoreClients(wf_payment, fail, GetClientByAccountNumber(Str(value)), 1,
                           Called(fs, "get_client_by_account_number"))

\* _find_client_match, lines 290-306: the account fields from i on
RECURSIVE ClientByAccountStage(_, _, _, _)
ClientByAccountStage(wf_payment, fail, i, fs) ==
    IF i > Len(LookupAccountFields) \/ fs.done \/ fs.exc THEN fs
    ELSE ClientByAccountStage(wf_payment, fail, i + 1,
             ClientByAccountField(wf_payment, fail,
                                  Get(wf_payment, LookupAccountFields[i]), fs))

\* a variant of ClientByNameStage that drops the exception of the lookup, as
\* the first two stages of _find_customer_match do
ClientByNameStageSwallowing(wf_payment, fail, fs) ==
    IF fs.done \/ fs.exc \/ ~Truthy(Get(wf_payment, "CustName")) THEN fs
    ELSE IF "get_clients_by_name" \in fail
         THEN Swallow(FailedCall(fs, "get_clients_by_name"))
         ELSE ScoreClients(wf_payment, fail, GetClientsByName(wf_payment["CustName"]), 1,
                           Called(fs, "get_clients_by_name"))

\* _find_client_match, lines 308-323: the name
ClientByNameStage(wf_payment, fail, fs) ==
    IF fs.done \/ fs.exc \/ ~Truthy(Get(wf_payment, "CustName")) THEN fs
    ELSE IF "get_clients_by_name" \in fail
         THEN FailedCall(fs, "get_clients_by_name")
         ELSE ScoreClients(wf_payment, fail, GetClientsByName(wf_payment["CustName"]), 1,
                           Called(fs, "get_clients_by_name"))

\* _find_client_match, lines 325-340: the company name
ClientByCompanyStage(wf_payment, fail, fs) ==
    IF fs.done \/ fs.exc \/ ~Truthy(Get(wf_payment, "CompName")) THEN fs
    ELSE IF "get_clients_by_company" \in fail
         THEN FailedCall(fs, "get_clients_by_company")
         ELSE ScoreClients(wf_payment, fail, GetClientsByCompany(wf_payment["CompName"]), 1,
                           Called(fs, "get_clients_by_company"))

\* PaymentMapperService._find_client_match
FindClientMatch(wf_payment, fail, calls) ==
    ClientByCompanyStage(wf_payment, fail,
        ClientByNameStage(wf_payment, fail,
            ClientByAccountStage(wf_payment, fail, 1, NewSearch(calls))))

\* ------------------------------------------------------------------------
\* payment_service.py: applying a payment
\* ------------------------------------------------------------------------

\* payment_reference=str(wf_payment.get('BankReference', wf_payment.get('ID')))
PaymentReference(wf_payment) ==
    Str(GetDefault(wf_payment, "BankReference", Get(wf_payment, "ID")))

\* the outcome of an _apply_*_payment call: the database afterwards, the calls
\* made, and whether it raised
Applied(db, calls, exc) == [db |-> db, calls |-> calls, exc |-> exc]

\* db.az_log[id] after a create_or_update_payment_az call for payment id: the
\* references the payment was written under, the calls and the rows inserted
Logged(entry, ref, is_new) ==
    [refs |-> entry.refs \cup {ref},
     writes |-> entry.writes + 1,
     inserts |-> entry.inserts + (IF is_new THEN 1 ELSE 0)]

\* the database after create_or_update_payment_az(..., payment_reference=ref)
Written(db, id, client_id, ref) ==
    [db EXCEPT !.az = CreateOrUpdatePaymentAz(db.az, client_id, ref),
               !.az_log[id] = Logged(@, ref, ref \notin DOMAIN db.az)]

\* the database after update_wf_payment_applied_status(id, True)
Marked(db, id) == [db EXCEPT !.applied = @ \cup {id}]

\* lines 394-403 and 458-467, with the payment_reference passed as ref:
\* create_or_update_payment_az, then update_wf_payment_applied_status
ApplyWritesAs(wf_payment, client_id, ref, fail, db, calls) ==
    IF "create_or_update_payment_az" \in fail
    THEN Applied(db, Append(calls, <<"create_or_update_payment_az", FALSE>>), TRUE)
    ELSE IF "update_wf_payment_applied_status" \in fail
         THEN Applied(Written(db, wf_payment["ID"], client_id, ref),
                      calls \o <<<<"create_or_update_payment_az", TRUE>>,
                                 <<"update_wf_payment_applied_status", FALSE>>>>,
                      TRUE)
         ELSE Applied(Marked(Written(db, wf_payment["ID"], client_id, ref), wf_payment["ID"]),
                      calls \o <<<<"create_or_update_payment_az", TRUE>>,
                                 <<"update_wf_payment_applied_status", TRUE>>>>,
                      FALSE)

\* a variant of ApplyWrites that numbers the references: each call passes the
\* count of the rows written so far
ApplyWritesNumbered(wf_payment, client_id, fail, db, calls) ==
    ApplyWritesAs(wf_payment, client_id, Str(PyInt(Cardinality(DOMAIN db.az))), fail, db, calls)

\* the two writes both _apply_customer_payment and _apply_client_payment end with
ApplyWrites(wf_payment, client_id, fail, db, calls) ==
    ApplyWritesAs(wf_payment, client_id, PaymentReference(wf_payment), fail, db, calls)

\* lines 371-378: no client id, or the first one
ApplyToFirstClient(wf_payment, client_ids, fail, db, calls) ==
    IF client_ids = <<>> THEN Applied(db, calls, FALSE)
    ELSE ApplyWrites(wf_payment, client_ids[1], fail, db, calls)

\* PaymentMapperService._apply_customer_payment
ApplyCustomerPayment(wf_payment, customer, fail, db, calls) ==
    IF "get_client_ids_for_customer" \in fail
    THEN Applied(db, Append(calls, <<"get_client_ids_for_customer", FALSE>>), TRUE)
    ELSE ApplyToFirstClient(wf_payment, GetClientIdsForCustomer(customer["customer_id"]), fail,
                            db, Append(calls, <<"get_client_ids_for_customer", TRUE>>))

\* PaymentMapperService._apply_client_payment
ApplyClientPayment(wf_payment, client, fail, db, calls) ==
    ApplyWrites(wf_payment, client["client_id"].n, fail, db, calls)

\* ------------------------------------------------------------------------
\* payment_service.py: process_payment
\* ------------------------------------------------------------------------

StatKeys ==
    {"total_processed", "customer_matches", "client_matches", "no_matches",
     "high_confidence", "medium_confidence", "low_confidence"}

\* PaymentMapperService.__init__: self.stats
ZeroStats == [k \in StatKeys |-> 0]

Bump(stats, key) == [stats EXCEPT ![key] = @ + 1]

\* what a process_payment call gives its caller: a returned tuple or an
\* exception; with it the locals the call ended with: the accepted match and the
\* best scores of the two searches (Zero for a search that did not finish)
Returned(id, success, match_type, confidence, entity, best_customer, best_client) ==
    [kind |-> "return", id |-> id, success |-> success, match_type |-> match_type,
     confidence |-> confidence, entity |-> entity,
     best_customer |-> best_customer, best_client |-> best_client]

Raise(id, best_customer, best_client) ==
    [kind |-> "raise", id |-> id, success |-> FALSE, match_type |-> "", confidence |-> Zero,
     entity |-> NoMatch, best_customer |-> best_customer, best_client |-> best_client]

NoResult ==
    [kind |-> "none", id |-> None, success |-> FALSE, match_type |-> "", confidence |-> Zero,
     entity |-> NoMatch, best_customer |-> Zero, best_client |-> Zero]

\* line 91: "if customer_match and confidence_service.is_high_confidence(...)"
CustomerAccepted(customer_match, customer_confidence) ==
    customer_match # NoMatch /\ IsHighConfidence(customer_confidence)

\* a variant of ClientAccepted without the threshold
ClientAcceptedAtAnyScore(client_match, client_confidence) == client_match # NoMatch

\* line 110: "if client_match and confidence_service.is_medium_confidence(...)"
ClientAccepted(client_match, client_confidence) ==
    client_match # NoMatch /\ IsMediumConfidence(client_confidence)

\* a variant of CustomerMatchType with a type of its own for the score 1.0
CustomerMatchTypeDirect(customer_confidence) ==
    IF customer_confidence = One THEN "direct_id" ELSE "customer_match"

\* line 105: the match type of an accepted customer
CustomerMatchType(customer_confidence) == "customer_match"

\* line 128: the match type of an accepted client
ClientMatchType(client_confidence) == "client_match"

Outcome(stats, db, result, calls) ==
    [stats |-> stats, db |-> db, result |-> result, calls |-> calls]

\* lines 103-105 and 126-128: the payment was applied, or applying it raised
AfterApply(wf_payment, stats, match_type, found, best_customer, best_client, applied) ==
    IF applied.exc
    THEN Outcome(stats, applied.db, Raise(wf_payment["ID"], best_customer, best_client),
                 applied.calls)
    ELSE Outcome(stats, applied.db,
                 Returned(wf_payment["ID"], TRUE, match_type, found.conf, found.best,
                          best_customer, best_client),
                 applied.calls)

\* lines 117-123: the statistics of an accepted client
ClientMatchStats(stats, client_confidence) ==
    IF IsHighConfidence(client_confidence)
    THEN Bump(Bump(stats, "client_matches"), "high_confidence")
    ELSE Bump(Bump(stats, "client_matches"), "medium_confidence")

\* lines 110-140: after _find_client_match gave found
AfterClientSearch(wf_payment, fail, stats, db, customer_confidence, found) ==
    IF found.exc
    THEN Outcome(stats, db, Raise(wf_payment["ID"], customer_confidence, Zero), found.calls)
    ELSE IF ClientAccepted(found.best, found.conf)
         THEN AfterApply(wf_payment, ClientMatchStats(stats, found.conf),
                         ClientMatchType(found.conf), found, customer_confidence, found.conf,
                         ApplyClientPayment(wf_payment, found.best, fail, db, found.calls))
         ELSE Outcome(Bump(stats, "no_matches"), db,
                      Returned(wf_payment["ID"], FALSE, "no_match",
                               FMax(customer_confidence, found.conf), NoMatch,
                               customer_confidence, found.conf),
                      found.calls)

\* lines 108-140: the customer was not accepted, the clients are searched
ClientPart(wf_payment, fail, stats, db, found) ==
    AfterClientSearch(wf_payment, fail, stats, db, found.conf,
                      FindClientMatch(wf_payment, fail, found.calls))

\* a variant of CustomerPart that searches the clients before it applies the
\* payment to the accepted customer
CustomerPartAfterClients(wf_payment, fail, stats, db, found) ==
    AfterApply(wf_payment, Bump(Bump(stats, "customer_matches"), "high_confidence"),
               CustomerMatchType(found.conf), found, found.conf, Zero,
               ApplyCustomerPayment(wf_payment, found.best, fail, db,
                   Swallow(FindClientMatch(wf_payment, fail, found.calls)).calls))

\* lines 91-105: the customer was accepted
CustomerPart(wf_payment, fail, stats, db, found) ==
    AfterApply(wf_payment, Bump(Bump(stats, "customer_matches"), "high_confidence"),
               CustomerMatchType(found.conf), found, found.conf, Zero,
               ApplyCustomerPayment(wf_payment, found.best, fail, db, found.calls))

\* lines 91-140: after _find_customer_match gave found
AfterCustomerSearch(wf_payment, fail, stats, db, found) ==
    IF found.exc THEN Outcome(stats, db, Raise(wf_payment["ID"], Zero, Zero), found.calls)
    ELSE IF CustomerAccepted(found.best, found.conf)
         THEN CustomerPart(wf_payment, fail, stats, db, found)
         ELSE ClientPart(wf_payment, fail, stats, db, found)

\* PaymentMapperService.process_payment
ProcessPayment(wf_payment, fail, account_ids, stats, db) ==
    IF ~Truthy(Get(wf_payment, "ID"))
    THEN Outcome(stats, db,
                 Returned(Get(wf_payment, "ID"), FALSE, "error", Zero, NoMatch, Zero, Zero),
                 <<>>)
    ELSE AfterCustomerSearch(wf_payment, fail, Bump(stats, "total_processed"), db,
                             FindCustomerMatch(wf_payment, fail, account_ids, <<>>))

\* ------------------------------------------------------------------------
\* The service as a state machine
\* ------------------------------------------------------------------------

\* process_payment calls explored in one behaviour
MaxCalls == 2

\* the largest limit process_batch is called with
MaxLimit == 2

VARIABLES
    stats,        \* PaymentMapperService.stats
    account_ids,  \* PaymentMapperService.account_ids, and whether initialize() set it
    db,           \* the wf applied flags, the payments_az table, and its write log
    result,       \* what the last process_payment call gave its caller
    calls,        \* the collaborator calls of the last process_payment call, in order
    pc,           \* "idle", or "batch" inside the loop of process_batch
    queue,        \* the payments process_batch has fetched and not yet processed
    batch,        \* the last process_batch call: its outcome and its counts
    invocations,  \* the process_payment calls made so far
    probe,        \* a scoring call on drawn inputs: the inputs, then the score
    pnc,          \* PNCImporter: its directories, the pnc_currentday_split table, its run
    wfi,          \* enhanced_wf_importer: its directory, wf_payments_split, its scan
    oms,          \* OrderMatchingService: the wf applied flags and its last call
    eaa           \* eaa_db_importer: its files, the connection and eaa_payments

engine_vars == <<stats, account_ids, db, result, calls, pc, queue, batch, invocations>>

importer_vars == <<pnc, wfi, oms, eaa>>

vars == <<stats, account_ids, db, result, calls, pc, queue, batch, invocations, probe,
          pnc, wfi, oms, eaa>>

PaymentIds == {WfPaymentTable[i]["ID"] : i \in 1..Len(WfPaymentTable)}

\* a call fails alone, or none does
FailSets == {{}} \cup {{c} : c \in Collaborators \cup ScoringCalls}

\* what is kept of a process_batch call: how it ended, the ids it fetched, the
\* tuples process_payment returned, whether every call it made came back, and
\* the statistics it returned
NoRun == [outcome |-> "none", ids |-> <<>>, results |-> <<>>, clean |-> TRUE, stats |-> ZeroStats]

\* the process_batch call under way or last made, its counts, and the call before it
NoBatch == [outcome |-> "none", fetched |-> 0, attempted |-> 0, errors |-> 0, run |-> NoRun, prev |-> NoRun]

\* the ids of rows
Ids(rows) == [i \in 1..Len(rows) |-> rows[i]["ID"]]

\* run after process_payment gave res through the calls it made
RunAfter(run, res, made) ==
    [run EXCEPT !.results = Append(@, <<res.kind, res.success, res.match_type,
                                        res.confidence>>),
                !.clean = @ /\ \A i \in 1..Len(made) : made[i][2]]

NoProbe ==
    [stage |-> "none", payment |-> WfPaymentTable[1], entity |-> NoMatch,
     confidence |-> Zero, direct |-> FALSE, match_type |-> "",
     text1 |-> None, text2 |-> None, tiers |-> {}, search |-> NewSearch(<<>>)]

\* PNCImporter.run's stats, lines 435-441
PncStatKeys ==
    {"files_found", "files_processed", "records_found", "records_inserted", "files_archived"}

\* a PNCImporter with empty directories and an empty table, not running
NoPnc ==
    [pc |-> "idle", test_mode |-> FALSE, input |-> {}, archive |-> {}, table |-> <<>>,
     todo |-> <<>>, all_records |-> <<>>, stats |-> [k \in PncStatKeys |-> 0],
     outcome |-> "none", before |-> [input |-> {}, archive |-> {}, table |-> <<>>]]

\* what process_wf_payment_records returns, with the statements it executed
NoCounts == [inserted |-> 0, updated |-> 0, errors |-> 0, writes |-> 0]

\* the directory, its 'processed' subdirectory and wf_payments_split (the
\* BankReference column) with no scan running; writes counts the INSERT and
\* UPDATE statements executed so far, last is the file imported last
NoWfi ==
    [pc |-> "idle", test_mode |-> FALSE, move_processed |-> TRUE,
     input |-> {}, processed |-> {}, table |-> {}, writes |-> 0, scans |-> 0,
     todo |-> <<>>, files_processed |-> 0, files_with_errors |-> 0,
     last |-> [name |-> "", fail |-> "none", counts |-> NoCounts],
     before |-> [input |-> {}, processed |-> {}, table |-> {}, writes |-> 0]]

\* OrderMatchingService with no call running: the account ids it has
\* loaded, the ids of the wf payments whose applied flag is set, and for the
\* call made last its counters, the payments it attempted and marked
\* applied, and what it returned
NoOms ==
    [pc |-> "idle", account_ids |-> {}, applied |-> {}, payments |-> <<>>,
     processed_count |-> 0, matched_count |-> 0,
     attempted |-> <<>>, marked |-> <<>>, returned |-> <<>>]

\* the EAA importer before main runs: the input and archive directories,
\* the rows of eaa_payments that are committed, the rows inserted in the
\* open transaction of the connection, and the files imported with and
\* without success
NoEaa ==
    [pc |-> "idle", no_archive |-> FALSE, input |-> {}, archive |-> {},
     committed |-> {}, pending |-> {}, todo |-> {},
     successful_imports |-> {}, failed_imports |-> {}, returned_false |-> {}]

\* the importers and the order matching service before anything is run
ImportersInit == pnc = NoPnc /\ wfi = NoWfi /\ oms = NoOms /\ eaa = NoEaa

\* the module-level singleton, as constructed
EngineInit ==
    /\ stats = ZeroStats
    /\ account_ids = [loaded |-> FALSE, ids |-> {}]
    /\ db = [applied |-> {},
             az |-> <<>>,
             az_log |-> [id \in PaymentIds |-> [refs |-> {}, writes |-> 0, inserts |-> 0]]]
    /\ result = NoResult
    /\ calls = <<>>
    /\ pc = "idle"
    /\ queue = <<>>
    /\ batch = NoBatch
    /\ invocations = 0

Init == EngineInit /\ ImportersInit /\ probe = NoProbe

\* PaymentMapperService.initialize; get_distinct_account_ids may raise
Initialize(ok) ==
    /\ pc = "idle"
    /\ IF ok
       THEN /\ account_ids' = [loaded |-> TRUE, ids |-> AccountIdTable]
            /\ stats' = ZeroStats
       ELSE UNCHANGED <<account_ids, stats>>
    /\ UNCHANGED <<db, result, calls, pc, queue, batch, invocations, probe, importer_vars>>

\* the service and the database take the outcome of a process_payment call
Deliver(out) ==
    /\ stats' = out.stats
    /\ db' = out.db
    /\ result' = out.result
    /\ calls' = out.calls

\* a caller's process_payment(wf_payment) outside a batch
ProcessPaymentCall(wf_payment, fail) ==
    /\ pc = "idle"
    /\ invocations < MaxCalls
    /\ invocations' = invocations + 1
    /\ Deliver(ProcessPayment(wf_payment, fail, account_ids, stats, db))
    /\ UNCHANGED <<account_ids, pc, queue, batch, probe, importer_vars>>

\* a variant of BatchStart whose initialize() leaves the statistics as they are
BatchStartKeepingStats(limit, ok) ==
    /\ pc = "idle"
    /\ result' = NoResult
    /\ calls' = <<>>
    /\ IF ok
       THEN /\ account_ids' = [loaded |-> TRUE, ids |-> AccountIdTable]
            /\ queue' = GetUnappliedWfPayments(limit, db.applied)
            /\ pc' = "batch"
            /\ batch' = [outcome |-> "running", fetched |-> Len(queue'),
                         attempted |-> 0, errors |-> 0,
                         run |-> [NoRun EXCEPT !.outcome = "running", !.ids = Ids(queue')],
                         prev |-> batch.run]
            /\ UNCHANGED stats
       ELSE /\ batch' = [NoBatch EXCEPT !.outcome = "raised",
                                        !.run = [NoRun EXCEPT !.outcome = "raised", !.clean = FALSE],
                                        !.prev = batch.run]
            /\ queue' = <<>>
            /\ UNCHANGED <<account_ids, stats, pc>>
    /\ UNCHANGED <<db, invocations, probe, importer_vars>>

\* process_batch, lines 159-166: initialize, fetch the unapplied payments
BatchStart(limit, ok) ==
    /\ pc = "idle"
    /\ result' = NoResult
    /\ calls' = <<>>
    /\ IF ok
       THEN LET fetched == GetUnappliedWfPayments(limit, db.applied)
            IN  /\ account_ids' = [loaded |-> TRUE, ids |-> AccountIdTable]
                /\ stats' = ZeroStats
                /\ queue' = fetched
                /\ pc' = "batch"
                /\ batch' = [outcome |-> "running", fetched |-> Len(fetched),
                             attempted |-> 0, errors |-> 0,
                             run |-> [NoRun EXCEPT !.outcome = "running", !.ids = Ids(fetched)],
                             prev |-> batch.run]
       ELSE /\ batch' = [NoBatch EXCEPT !.outcome = "raised",
                                        !.run = [NoRun EXCEPT !.outcome = "raised", !.clean = FALSE],
                                        !.prev = batch.run]
            /\ queue' = <<>>
            /\ UNCHANGED <<account_ids, stats, pc>>
    /\ UNCHANGED <<db, invocations, probe, importer_vars>>

\* a variant of BatchStep that counts the exception of process_payment and
\* goes on with the next payment
BatchStepContinue(fail) ==
    /\ pc = "batch"
    /\ queue # <<>>
    /\ invocations < MaxCalls
    /\ invocations' = invocations + 1
    /\ Deliver(ProcessPayment(Head(queue), fail, account_ids, stats, db))
    /\ queue' = Tail(queue)
    /\ pc' = "batch"
    /\ batch' = [batch EXCEPT !.attempted = @ + 1,
                              !.errors = @ + (IF result'.kind = "raise" THEN 1 ELSE 0),
                              !.run = RunAfter(@, result', calls')]
    /\ UNCHANGED <<account_ids, probe, importer_vars>>

\* process_batch, lines 169-170 and 177-179: one turn of the loop; an
\* exception of process_payment leaves the loop and is raised again
BatchStep(fail) ==
    /\ pc = "batch"
    /\ queue # <<>>
    /\ invocations < MaxCalls
    /\ invocations' = invocations + 1
    /\ Deliver(ProcessPayment(Head(queue), fail, account_ids, stats, db))
    /\ queue' = Tail(queue)
    /\ IF result'.kind = "raise"
       THEN /\ pc' = "idle"
            /\ batch' = [batch EXCEPT !.outcome = "raised", !.attempted = @ + 1,
                                      !.errors = @ + 1,
                                      !.run = [RunAfter(@, result', calls') EXCEPT
                                                 !.outcome = "raised"]]
       ELSE /\ pc' = "batch"
            /\ batch' = [batch EXCEPT !.attempted = @ + 1,
                                      !.run = RunAfter(@, result', calls')]
    /\ UNCHANGED <<account_ids, probe, importer_vars>>

\* process_batch, lines 172-175: the loop is over, the statistics are returned
BatchReturn ==
    /\ pc = "batch"
    /\ queue = <<>>
    /\ pc' = "idle"
    /\ batch' = [batch EXCEPT !.outcome = "stats",
                              !.run = [@ EXCEPT !.outcome = "stats", !.stats = stats]]
    /\ UNCHANGED <<stats, account_ids, db, result, calls, queue, invocations, probe, importer_vars>>

Next ==
    \/ \E ok \in BOOLEAN : Initialize(ok)
    \/ \E i \in 1..Len(WfPaymentTable) : \E fail \in FailSets :
          ProcessPaymentCall(WfPaymentTable[i], fail)
    \/ \E limit \in 1..MaxLimit : \E ok \in BOOLEAN : BatchStart(limit, ok)
    \/ \E fail \in FailSets : BatchStep(fail)
    \/ BatchReturn

Spec == Init /\ [][Next]_vars

\* ------------------------------------------------------------------------
\* The scoring functions on drawn inputs
\* ------------------------------------------------------------------------

\* the payments scored: identifiers missing, empty, zero, and equal to or
\* different from the entity's as strings; names equal up to case, or shorter
ProbePayments ==
    {WfPayment(PyInt(1), cust_id, cust_name, comp_name, account_number, acct, Absent) :
        cust_id \in {None, PyStr(<<>>), PyStr(<<"0">>), PyStr(<<"4", "0", "2", "1">>), PyInt(4021)},
        cust_name \in {None, PyStr(<<"a", "l", " ", "r", "o", "e">>), PyStr(<<"A", "l">>)},
        comp_name \in {None, PyStr(<<"A", "C", "M", "E">>)},
        account_number \in {None, PyStr(<<"0">>), PyStr(<<"5", "5">>), PyStr(<<"5", "-", "5">>)},
        acct \in {Absent, PyStr(<<"5", "5">>)}}

ProbeCustomers ==
    {Customer(customer_id, name, company, primary_client_id) :
        customer_id \in {None, PyInt(0), PyInt(4021), PyStr(<<"4", "0", "2", "1">>)},
        name \in {None, PyStr(<<"A", "l", " ", "R", "o", "e">>)},
        company \in {PyStr(<<"A", "c", "m", "e">>), PyStr(<<"z", "e", "d">>)},
        primary_client_id \in {None, PyInt(0), PyInt(55)}}

ProbeClients ==
    {Client(PyInt(55), name, company, account_number) :
        name \in {None, PyStr(<<"A", "l", " ", "R", "o", "e">>)},
        company \in {PyStr(<<"A", "c", "m", "e">>), PyStr(<<"z", "e", "d">>)},
        account_number \in {None, PyStr(<<>>), PyStr(<<"5", "5">>), PyInt(55)}}

IsCustomer(entity) == entity["customer_id"] # Absent

ScoreInit ==
    /\ EngineInit
    /\ ImportersInit
    /\ \E payment \in ProbePayments : \E entity \in ProbeCustomers \cup ProbeClients :
          probe = [NoProbe EXCEPT !.stage = "input", !.payment = payment, !.entity = entity]

\* confidence_service.calculate_customer_match_confidence(payment, customer)
ScoreCustomer ==
    /\ probe.stage = "input"
    /\ IsCustomer(probe.entity)
    /\ probe' = [probe EXCEPT
                   !.stage = "customer",
                   !.confidence = CalculateCustomerMatchConfidence(probe.payment, probe.entity),
                   !.direct = HasDirectIdMatch(probe.payment, probe.entity)]
    /\ UNCHANGED <<engine_vars, importer_vars>>

\* confidence_service.calculate_client_match_confidence(payment, client)
ScoreClient ==
    /\ probe.stage = "input"
    /\ ~IsCustomer(probe.entity)
    /\ probe' = [probe EXCEPT
                   !.stage = "client",
                   !.confidence = CalculateClientMatchConfidence(probe.payment, probe.entity),
                   !.direct = HasDirectAccountMatch(probe.payment, probe.entity)]
    /\ UNCHANGED <<engine_vars, importer_vars>>

ProcessProbe(out) ==
    [probe EXCEPT !.stage = "process", !.entity = NoMatch,
                  !.confidence = out.result.confidence,
                  !.match_type = out.result.match_type]

\* process_payment(payment) on the initialized service, with the sample tables
ScoreProcess ==
    /\ probe.stage = "input"
    /\ probe' = ProcessProbe(ProcessPayment(probe.payment, {},
                                  [loaded |-> TRUE, ids |-> AccountIdTable], stats, db))
    /\ UNCHANGED <<engine_vars, importer_vars>>

ScoreNext == ScoreCustomer \/ ScoreClient \/ ScoreProcess

ScoreSpec == ScoreInit /\ [][ScoreNext]_vars

\* ------------------------------------------------------------------------
\* The similarity functions on drawn strings
\* ------------------------------------------------------------------------

\* the arguments drawn: None, the empty string, names that differ in case,
\* honorific, punctuation and whitespace, account numbers, and two strings
\* the sequence matcher aligns differently in the two orders
ProbeTexts ==
    {None, PyStr(<<>>),
     PyStr(<<"M", "r", ".", " ", "J", "o", "h", "n", " ", "S", "m", "i", "t", "h">>),
     PyStr(<<"M", "r", " ", "J", "o", "h", "n", " ", "S", "m", "i", "t", "h">>),
     PyStr(<<"j", "o", "h", "n", " ", " ", "s", "m", "i", "t", "h">>),
     PyStr(<<" ", "J", "O", "H", "N", " ", "S", "M", "I", "T", "H", ",", " ">>),
     PyStr(<<"d", "r", " ", "a", "l">>),
     PyStr(<<"a", "l">>),
     PyStr(<<"t", "i", "d", "e">>),
     PyStr(<<"d", "i", "e", "t">>),
     PyStr(<<"9", "-", "0">>),
     PyStr(<<"9", "0">>),
     PyStr(<<"1", "2", "9", "0">>),
     PyStr(<<"-">>)}

SimInit ==
    /\ EngineInit
    /\ ImportersInit
    /\ \E text1 \in ProbeTexts : \E text2 \in ProbeTexts :
          probe = [NoProbe EXCEPT !.stage = "texts", !.text1 = text1, !.text2 = text2]

\* matching_service.calculate_name_similarity(text1, text2); "not name1" holds
\* of None and of the empty string alike
SimName ==
    /\ probe.stage = "texts"
    /\ probe' = [probe EXCEPT
                   !.stage = "name",
                   !.confidence = CalculateNameSimilarity(probe.text1.s, probe.text2.s)]
    /\ UNCHANGED <<engine_vars, importer_vars>>

\* matching_service.calculate_account_similarity(text1, text2)
SimAccount ==
    /\ probe.stage = "texts"
    /\ probe' = [probe EXCEPT
                   !.stage = "account",
                   !.confidence = CalculateAccountSimilarity(probe.text1.s, probe.text2.s)]
    /\ UNCHANGED <<engine_vars, importer_vars>>

SimNext == SimName \/ SimAccount

SimSpec == SimInit /\ [][SimNext]_vars

\* ------------------------------------------------------------------------
\* The tier predicates on drawn scores
\* ------------------------------------------------------------------------

\* the scores drawn: the hundredths of [0, 1], the thresholds among them
ProbeScores == {Frac(k, 100) : k \in 0..100}

TierInit ==
    /\ EngineInit
    /\ ImportersInit
    /\ \E score \in ProbeScores :
          probe = [NoProbe EXCEPT !.stage = "score", !.confidence = score]

\* is_high_confidence, is_medium_confidence and is_low_confidence of one score
TierClassify ==
    /\ probe.stage = "score"
    /\ probe' = [probe EXCEPT
                   !.stage = "tier",
                   !.tiers = (IF IsHighConfidence(probe.confidence) THEN {"high"} ELSE {})
                             \cup (IF IsMediumConfidence(probe.confidence) THEN {"medium"} ELSE {})
                             \cup (IF IsLowConfidence(probe.confidence) THEN {"low"} ELSE {})]
    /\ UNCHANGED <<engine_vars, importer_vars>>

TierNext == TierClassify

TierSpec == TierInit /\ [][TierNext]_vars

\* ------------------------------------------------------------------------
\* The two searches on the drawn payments, with the sample tables
\* ------------------------------------------------------------------------

SearchInit ==
    /\ EngineInit
    /\ ImportersInit
    /\ \E payment \in ProbePayments :
          probe = [NoProbe EXCEPT !.stage = "payment", !.payment = payment]

\* self._find_customer_match(wf_payment) on the initialized service
SearchCustomers ==
    /\ probe.stage = "payment"
    /\ probe' = [probe EXCEPT
                   !.stage = "customers",
                   !.search = FindCustomerMatch(probe.payment, {},
                                  [loaded |-> TRUE, ids |-> AccountIdTable], <<>>)]
    /\ UNCHANGED <<engine_vars, importer_vars>>

\* self._find_client_match(wf_payment)
SearchClients ==
    /\ probe.stage = "payment"
    /\ probe' = [probe EXCEPT !.stage = "clients",
                              !.search = FindClientMatch(probe.payment, {}, <<>>)]
    /\ UNCHANGED <<engine_vars, importer_vars>>

SearchNext == SearchCustomers \/ SearchClients

SearchSpec == SearchInit /\ [][SearchNext]_vars

\* ------------------------------------------------------------------------
\* The two _apply_*_payment methods on the rows of the wf table
\* ------------------------------------------------------------------------

\* the rows that have an ID
RowsWithId == {i \in 1..Len(WfPaymentTable) : WfPaymentTable[i]["ID"] # None}

ApplyInit == EngineInit /\ ImportersInit /\ probe = NoProbe

\* the state after an _apply_*_payment call that gave out
AfterApplyCall(out) ==
    /\ db' = out.db
    /\ calls' = out.calls
    /\ invocations' = invocations + 1
    /\ UNCHANGED <<stats, account_ids, result, pc, queue, batch, probe, importer_vars>>

\* self._apply_customer_payment(wf_payment, customer, confidence)
ApplyToCustomer(i, customer) ==
    /\ invocations < MaxCalls
    /\ AfterApplyCall(ApplyCustomerPayment(WfPaymentTable[i], customer, {}, db, <<>>))

\* self._apply_client_payment(wf_payment, client, confidence)
ApplyToClient(i, client) ==
    /\ invocations < MaxCalls
    /\ AfterApplyCall(ApplyClientPayment(WfPaymentTable[i], client, {}, db, <<>>))

ApplyNext ==
    \/ \E i \in RowsWithId : \E k \in 1..Len(CustomerTable) : ApplyToCustomer(i, CustomerTable[k])
    \/ \E i \in RowsWithId : \E k \in 1..Len(ClientTable) : ApplyToClient(i, ClientTable[k])

ApplySpec == ApplyInit /\ [][ApplyNext]_vars

\* ------------------------------------------------------------------------
\* PNC/import_pnc_payments.py: PNCImporter
\* ------------------------------------------------------------------------

\* a row of a CSV file: its Reference column, and whether AsOfDate parses
PncRecord(reference, dated) == [Reference |-> reference, dated |-> dated]

\* the CSV files that may lie in INPUT_DIR: what pd.read_csv and the column
\* checks of process_csv_file make of each (readable or not) and its rows;
\* a.csv and b.csv hold the same transaction 72
PncFiles ==
    [name \in {"a.csv", "b.csv", "c.csv", "d.csv"} |->
        CASE name = "a.csv" -> [readable |-> TRUE,
                                rows |-> <<PncRecord(<<"'", "7", "1", "'">>, TRUE),
                                           PncRecord(<<"7", "2">>, TRUE)>>]
          [] name = "b.csv" -> [readable |-> TRUE,
                                rows |-> <<PncRecord(<<"7", "2">>, TRUE),
                                           PncRecord(<<"7", "3">>, TRUE)>>]
          [] name = "c.csv" -> [readable |-> FALSE, rows |-> <<>>]
          [] name = "d.csv" -> [readable |-> TRUE,
                                rows |-> <<PncRecord(<<"7", "4">>, FALSE)>>]]

PncFileOrder == <<"a.csv", "b.csv", "c.csv", "d.csv">>

\* the tables a run may find: empty, or one transaction imported before
PncTables == {<<>>, <<<<"7", "1">>>>, <<<<"7", "3">>>>}

\* line 275: df['Reference'].astype(str).str.replace("'", "", regex=False)
CleanReference(reference) ==
    LET NotQuote(c) == c # "'"
    IN  SelectSeq(reference, NotQuote)

CleanRow(row) == [row EXCEPT !.Reference = CleanReference(@)]

\* process_csv_file: None (here ok FALSE) or the rows of the file
ProcessCsvFile(name) ==
    IF ~PncFiles[name].readable THEN [ok |-> FALSE, rows |-> <<>>]
    ELSE [ok |-> TRUE,
          rows |-> [i \in 1..Len(PncFiles[name].rows) |-> CleanRow(PncFiles[name].rows[i])]]

\* get_csv_files: the files of INPUT_DIR, in the order of their names
GetCsvFiles(input) ==
    LET Present(name) == name \in input
    IN  SelectSeq(PncFileOrder, Present)

\* get_existing_references
GetExistingReferences(test_mode, table) ==
    IF test_mode THEN {} ELSE {table[i] : i \in 1..Len(table)}

\* what insert_records gives: the table afterwards, the count returned, and
\* whether it raised
Inserted(table, count, exc) == [table |-> table, count |-> count, exc |-> exc]

\* PNCImporter.insert_records: rows without a date are dropped, rows whose
\* Reference is in the table are skipped, the rest goes in as one batch
\* (MAX_BATCH_SIZE is 100); fail is "none", "connect" or "insert"
InsertRecords(records, table, test_mode, fail) ==
    LET Dated(row) == row.dated
        valid == SelectSeq(records, Dated)
        existing == GetExistingReferences(test_mode, table)
        New(row) == row.Reference \notin existing
        new_records == SelectSeq(valid, New)
    IN  IF valid = <<>> THEN Inserted(table, 0, FALSE)
        ELSE IF ~test_mode /\ fail = "connect" THEN Inserted(table, 0, TRUE)
        ELSE IF new_records = <<>> THEN Inserted(table, 0, FALSE)
        ELSE IF test_mode THEN Inserted(table, Len(new_records), FALSE)
        ELSE IF fail = "insert" THEN Inserted(table, 0, FALSE)
        ELSE Inserted(table \o [i \in 1..Len(new_records) |-> new_records[i].Reference],
                      Len(new_records), FALSE)

PncInit ==
    /\ EngineInit
    /\ probe = NoProbe
    /\ wfi = NoWfi /\ oms = NoOms /\ eaa = NoEaa
    /\ \E input \in SUBSET DOMAIN PncFiles : \E table \in PncTables :
          pnc = [NoPnc EXCEPT !.input = input, !.table = table]

\* PNCImporter(test_mode).run(), lines 433-449: the files are listed
PncRunStart(test_mode) ==
    /\ pnc.pc = "idle"
    /\ LET csv_files == GetCsvFiles(pnc.input)
           started == [pnc EXCEPT !.test_mode = test_mode,
                                  !.stats = [NoPnc.stats EXCEPT !["files_found"] = Len(csv_files)],
                                  !.all_records = <<>>,
                                  !.before = [input |-> pnc.input, archive |-> pnc.archive,
                                              table |-> pnc.table]]
       IN  pnc' = IF csv_files = <<>>
                  THEN [started EXCEPT !.outcome = "stats"]
                  ELSE [started EXCEPT !.pc = "files", !.todo = csv_files, !.outcome = "running"]
    /\ UNCHANGED <<engine_vars, probe, wfi, oms, eaa>>

\* archive_file: the copy is made in either mode, the file is removed outside
\* test mode
ArchiveFile(state, name) ==
    [state EXCEPT !.archive = @ \cup {name},
                  !.input = IF state.test_mode THEN @ ELSE @ \ {name},
                  !.stats["files_archived"] = @ + 1]

\* run, lines 453-463: one file of the loop
PncAfterFile(state, name, records) ==
    IF ~records.ok THEN state
    ELSE ArchiveFile([state EXCEPT !.stats["files_processed"] = @ + 1,
                                   !.stats["records_found"] = @ + Len(records.rows),
                                   !.all_records = @ \o records.rows],
                     name)

PncProcessFile ==
    /\ pnc.pc = "files"
    /\ LET after == PncAfterFile(pnc, Head(pnc.todo), ProcessCsvFile(Head(pnc.todo)))
       IN  pnc' = [after EXCEPT !.todo = Tail(@),
                                !.pc = IF Tail(pnc.todo) = <<>> THEN "insert" ELSE "files"]
    /\ UNCHANGED <<engine_vars, probe, wfi, oms, eaa>>

\* run, lines 465-481: the records of all the files are inserted together
PncInsert(fail) ==
    /\ pnc.pc = "insert"
    /\ LET out == IF pnc.all_records = <<>> THEN Inserted(pnc.table, 0, FALSE)
                  ELSE InsertRecords(pnc.all_records, pnc.table, pnc.test_mode, fail)
       IN  pnc' = [pnc EXCEPT !.pc = "idle",
                              !.table = out.table,
                              !.stats["records_inserted"] = out.count,
                              !.outcome = IF out.exc THEN "raised" ELSE "stats"]
    /\ UNCHANGED <<engine_vars, probe, wfi, oms, eaa>>

PncNext ==
    \/ \E test_mode \in BOOLEAN : PncRunStart(test_mode)
    \/ PncProcessFile
    \/ \E fail \in {"none", "connect", "insert"} : PncInsert(fail)

PncSpec == PncInit /\ [][PncNext]_vars

\* ------------------------------------------------------------------------
\* old_WF/payment_processor/scripts/enhanced_wf_importer.py
\* ------------------------------------------------------------------------

\* a row of a CSV file after map_csv_to_db: its BankReference ("" when the
\* file has none) and whether its 'Tran Desc' is one of the two types kept
WfiRecord(reference, relevant) == [BankReference |-> reference, relevant |-> relevant]

\* the CSV files that may lie in the directory; w1.csv holds A twice, w1.csv
\* and w2.csv both hold B, w3.csv cannot be read, w4.csv has no row of a
\* type that is kept
WfiFiles ==
    [name \in {"w1.csv", "w2.csv", "w3.csv", "w4.csv"} |->
        CASE name = "w1.csv" -> [readable |-> TRUE,
                                 rows |-> <<WfiRecord("A", TRUE), WfiRecord("B", TRUE),
                                            WfiRecord("A", TRUE)>>]
          [] name = "w2.csv" -> [readable |-> TRUE,
                                 rows |-> <<WfiRecord("B", TRUE), WfiRecord("", TRUE),
                                            WfiRecord("C", FALSE)>>]
          [] name = "w3.csv" -> [readable |-> FALSE, rows |-> <<>>]
          [] name = "w4.csv" -> [readable |-> TRUE, rows |-> <<WfiRecord("D", FALSE)>>]]

WfiFileOrder == <<"w1.csv", "w2.csv", "w3.csv", "w4.csv">>

\* the number of scans of the directory that are followed
MaxScans == 2

\* what may fail while a file is imported
WfiFailures == {"none", "schema", "select", "insert", "update"}

\* the tables a scan may find
WfiTables == {{}, {"A"}, {"B"}}

\* what the loop of process_wf_payment_records has done so far
Processed(table, counts) == [table |-> table, counts |-> counts]

\* a variant of ProcessRecord that writes in test mode as well
ProcessRecordWriting(record, acc, test_mode, fail) ==
    IF record.BankReference = "" THEN acc
    ELSE IF record.BankReference \in acc.table
         THEN Processed(acc.table, [acc.counts EXCEPT !.updated = @ + 1, !.writes = @ + 1])
         ELSE Processed(acc.table \cup {record.BankReference},
                        [acc.counts EXCEPT !.inserted = @ + 1, !.writes = @ + 1])

\* process_wf_payment_records, lines 547-631: one record. fail names the
\* statement that fails inside execute_sql, which logs the error and returns
\* None: after a failed SELECT the record is taken for a new one, after a
\* failed INSERT or UPDATE it is counted all the same
ProcessRecord(record, acc, test_mode, fail) ==
    IF record.BankReference = "" THEN acc
    ELSE IF fail # "select" /\ record.BankReference \in acc.table
         THEN IF test_mode \/ fail = "update"
              THEN Processed(acc.table, [acc.counts EXCEPT !.updated = @ + 1])
              ELSE Processed(acc.table,
                             [acc.counts EXCEPT !.updated = @ + 1, !.writes = @ + 1])
         ELSE IF test_mode \/ fail = "insert"
              THEN Processed(acc.table, [acc.counts EXCEPT !.inserted = @ + 1])
              ELSE Processed(acc.table \cup {record.BankReference},
                             [acc.counts EXCEPT !.inserted = @ + 1, !.writes = @ + 1])

\* lines 541-634: the records from i on
RECURSIVE ProcessRecords(_, _, _, _, _)
ProcessRecords(records, i, acc, test_mode, fail) ==
    IF i > Len(records) THEN acc
    ELSE ProcessRecords(records, i + 1, ProcessRecord(records[i], acc, test_mode, fail),
                        test_mode, fail)

\* lines 640-660: the INSERT IGNORE INTO wf_customer_payid after the batches
WithCustomerPayid(acc, test_mode) ==
    IF ~test_mode /\ acc.counts.inserted + acc.counts.updated > 0
    THEN Processed(acc.table, [acc.counts EXCEPT !.writes = @ + 1])
    ELSE acc

\* process_wf_payment_records(df, engine, test_mode): (0, 0, 0) for no
\* records and when the schema of the table cannot be read
ProcessWfPaymentRecords(records, table, test_mode, fail) ==
    IF records = <<>> \/ fail = "schema" THEN Processed(table, NoCounts)
    ELSE WithCustomerPayid(ProcessRecords(records, 1, Processed(table, NoCounts), test_mode, fail),
                           test_mode)

\* import_wf_payments: the rows of the two transaction types are kept and
\* processed; success is "errors == 0", and False when the file cannot be read
ImportWfPayments(name, table, test_mode, fail) ==
    LET Relevant(row) == row.relevant
        out == ProcessWfPaymentRecords(SelectSeq(WfiFiles[name].rows, Relevant), table,
                                       test_mode, fail)
    IN  IF ~WfiFiles[name].readable
        THEN [success |-> FALSE, table |-> table, counts |-> NoCounts]
        ELSE [success |-> out.counts.errors = 0, table |-> out.table, counts |-> out.counts]

WfiInit ==
    /\ EngineInit
    /\ probe = NoProbe
    /\ pnc = NoPnc /\ oms = NoOms /\ eaa = NoEaa
    /\ \E input \in SUBSET DOMAIN WfiFiles : \E table \in WfiTables :
          wfi = [NoWfi EXCEPT !.input = input, !.table = table]

\* scan_and_process_directory, lines 939-962: the files are listed
WfiScanStart(test_mode, move_processed) ==
    /\ wfi.pc = "idle"
    /\ wfi.scans < MaxScans
    /\ LET Present(name) == name \in wfi.input
           all_files == SelectSeq(WfiFileOrder, Present)
       IN  wfi' = [wfi EXCEPT !.test_mode = test_mode, !.move_processed = move_processed,
                              !.todo = all_files, !.scans = @ + 1,
                              !.pc = IF all_files = <<>> THEN "idle" ELSE "files",
                              !.files_processed = 0, !.files_with_errors = 0,
                              !.last = NoWfi.last,
                              !.before = [input |-> wfi.input, processed |-> wfi.processed,
                                          table |-> wfi.table, writes |-> wfi.writes]]
    /\ UNCHANGED <<engine_vars, probe, pnc, oms, eaa>>

\* lines 965-1014: one file of the loop: import it, move it when it succeeded
WfiAfterFile(state, name, fail, out) ==
    LET moved == out.success /\ state.move_processed /\ ~state.test_mode
    IN  [state EXCEPT !.table = out.table,
                      !.writes = @ + out.counts.writes,
                      !.last = [name |-> name, fail |-> fail, counts |-> out.counts],
                      !.input = IF moved THEN @ \ {name} ELSE @,
                      !.processed = IF moved THEN @ \cup {name} ELSE @,
                      !.files_processed = @ + (IF out.success THEN 1 ELSE 0),
                      !.files_with_errors = @ + (IF out.success THEN 0 ELSE 1),
                      !.todo = Tail(@),
                      !.pc = IF Tail(state.todo) = <<>> THEN "idle" ELSE "files"]

WfiProcessFile(fail) ==
    /\ wfi.pc = "files"
    /\ wfi' = WfiAfterFile(wfi, Head(wfi.todo), fail,
                           ImportWfPayments(Head(wfi.todo), wfi.table, wfi.test_mode, fail))
    /\ UNCHANGED <<engine_vars, probe, pnc, oms, eaa>>

WfiNext ==
    \/ \E test_mode \in BOOLEAN : \E move_processed \in BOOLEAN :
          WfiScanStart(test_mode, move_processed)
    \/ \E fail \in WfiFailures : WfiProcessFile(fail)

WfiSpec == WfiInit /\ [][WfiNext]_vars

\* ------------------------------------------------------------------------
\* order_matching_service.py
\* ------------------------------------------------------------------------

OmsFields == {"ID", "AccountNumber", "CustomerName", "Reference"}

OmsPayment(id, account_number, customer_name, reference) ==
    [f \in OmsFields |->
        CASE f = "ID" -> id
          [] f = "AccountNumber" -> account_number
          [] f = "CustomerName" -> customer_name
          [] f = "Reference" -> reference]

\* the rows of the wf table in the order get_unapplied_wf_payments yields
\* them: 31 has an account with an order record, 32 a customer with payment
\* history, 33 an account number that is no number and no name, 34 a known
\* account without an order record and a name without history
OmsPaymentTable ==
    <<OmsPayment(PyInt(31), PyStr(<<"5", "5">>), None, None),
      OmsPayment(PyInt(32), None, PyStr(<<"B", "o", "b">>), PyStr(<<"R", "2">>)),
      OmsPayment(PyInt(33), PyStr(<<"a", "b">>), None, None),
      OmsPayment(PyInt(34), PyStr(<<"7", "7", "7">>), PyStr(<<"A", "l">>), None)>>

\* the accounts with an order record that a payment can be matched to, and
\* the customer names with payment history
OmsOrderAccounts == {55}

OmsHistoryNames == {<<"B", "o", "b">>}

\* what may fail while a payment is processed
OmsFailures == {"none", "load", "match", "update"}

\* payment_repository.get_unapplied_wf_payments(limit)
OmsUnapplied(limit, applied) ==
    LET Test(row) == row["ID"].n \notin applied
        rows == SelectSeq(OmsPaymentTable, Test)
    IN  SubSeq(rows, 1, IF Len(rows) < limit THEN Len(rows) ELSE limit)

\* lines 176-181: float(account_id) of a string, None when it is no number
OmsAccountId(account_id) ==
    IF Truthy(account_id) /\ account_id.t = "str"
    THEN IF IsDigit(account_id.s) THEN PyInt(ParseNat(account_id.s)) ELSE None
    ELSE account_id

\* payment_repository.match_to_order_payment(...)[0]
MatchToOrderPayment(account_id, customer_name) ==
    IF account_id.t = "int"
    THEN account_id.n \in OmsOrderAccounts
    ELSE customer_name.t = "str" /\ customer_name.s \in OmsHistoryNames

\* match_payment_by_account, lines 85-140; a failure of the repository is
\* caught and reported as "error"
MatchPaymentByAccount(ids, account_id, customer_name, fail) ==
    IF ~Truthy(account_id) /\ ~Truthy(customer_name)
    THEN <<FALSE, "unknown", 0>>
    ELSE IF Truthy(account_id) /\ account_id.n \in ids
         THEN IF fail = "match" THEN <<FALSE, "error", 0>>
              ELSE IF MatchToOrderPayment(account_id, customer_name)
                   THEN <<TRUE, "order_account", 95>>
                   ELSE IF ~Truthy(customer_name) THEN <<FALSE, "unknown", 0>>
                        ELSE IF MatchToOrderPayment(None, customer_name)
                             THEN <<TRUE, "payment_history", 75>>
                             ELSE <<FALSE, "unknown", 0>>
         ELSE IF ~Truthy(customer_name) THEN <<FALSE, "unknown", 0>>
              ELSE IF fail = "match" THEN <<FALSE, "error", 0>>
                   ELSE IF MatchToOrderPayment(None, customer_name)
                        THEN <<TRUE, "payment_history", 75>>
                        ELSE <<FALSE, "unknown", 0>>

OmsInit ==
    /\ EngineInit
    /\ probe = NoProbe
    /\ pnc = NoPnc /\ wfi = NoWfi /\ eaa = NoEaa
    /\ \E applied \in SUBSET {31, 32, 33, 34} : oms = [NoOms EXCEPT !.applied = applied]

\* the return statement of process_unmatched_payments
OmsReturn(state, processed_count, matched_count) ==
    [state EXCEPT !.pc = "idle", !.payments = <<>>,
                  !.returned = <<processed_count, matched_count>>]

\* process_unmatched_payments(limit), lines 153-168: the account ids are
\* loaded when none are held (a failure is logged), the payments fetched
OmsStart(limit, ids_ok, ok) ==
    /\ oms.pc = "idle"
    /\ LET ids == IF oms.account_ids = {} /\ ids_ok THEN AccountIdTable
                          ELSE oms.account_ids
           payments == OmsUnapplied(limit, oms.applied)
           state == [oms EXCEPT !.account_ids = ids,
                                !.processed_count = 0, !.matched_count = 0,
                                !.attempted = <<>>, !.marked = <<>>, !.returned = <<>>]
       IN  oms' = IF ~ok \/ payments = <<>> THEN OmsReturn(state, 0, 0)
                  ELSE [state EXCEPT !.pc = "loop", !.payments = payments]
    /\ UNCHANGED <<engine_vars, probe, pnc, wfi, eaa>>

\* lines 170-213: one payment of the loop; lines 215-220: the return after
\* the last one, or from the handler when the status update raises
OmsStep(fail) ==
    /\ oms.pc = "loop"
    /\ LET payment == Head(oms.payments)
           id == payment["ID"].n
           ids == IF oms.account_ids = {} /\ fail # "load" THEN AccountIdTable
                  ELSE oms.account_ids
           out == MatchPaymentByAccount(ids, OmsAccountId(payment["AccountNumber"]),
                                        payment["CustomerName"], fail)
           tried == [oms EXCEPT !.account_ids = ids,
                                !.processed_count = @ + 1,
                                !.attempted = Append(@, id),
                                !.payments = Tail(@)]
           matched == [tried EXCEPT !.matched_count = @ + 1]
           done == [matched EXCEPT !.applied = @ \cup {id}, !.marked = Append(@, id)]
           Finish(state) == IF state.payments = <<>>
                            THEN OmsReturn(state, state.processed_count, state.matched_count)
                            ELSE state
       IN  oms' = IF ~out[1] THEN Finish(tried)
                  ELSE IF fail = "update" THEN OmsReturn(matched, 0, 0)
                  ELSE Finish(done)
    /\ UNCHANGED <<engine_vars, probe, pnc, wfi, eaa>>

OmsNext ==
    \/ \E limit \in 1..MaxLimit + 1 : \E ids_ok \in BOOLEAN : \E ok \in BOOLEAN :
          OmsStart(limit, ids_ok, ok)
    \/ \E fail \in OmsFailures : OmsStep(fail)

OmsSpec == OmsInit /\ [][OmsNext]_vars

\* ------------------------------------------------------------------------
\* EAA/eaa_db_importer.py
\* ------------------------------------------------------------------------

\* a row of eaa_payments: its payment_id and the file it was read from
EaaRow(file, payment_id) == [file |-> file, payment_id |-> payment_id]

\* the CSV files that may lie in the directory, each with the payment_ids
\* of its rows: e1.csv holds p1 twice, e2.csv and e3.csv both hold p3,
\* e4.csv cannot be read
EaaFiles ==
    [name \in {"e1.csv", "e2.csv", "e3.csv", "e4.csv"} |->
        CASE name = "e1.csv" -> [readable |-> TRUE, rows |-> <<"p1", "p2", "p1">>]
          [] name = "e2.csv" -> [readable |-> TRUE, rows |-> <<"p3">>]
          [] name = "e3.csv" -> [readable |-> TRUE, rows |-> <<"p4", "p3">>]
          [] name = "e4.csv" -> [readable |-> FALSE, rows |-> <<>>]]

\* the tables main may find
EaaTables == {{}, {EaaRow("old", "p2")}, {EaaRow("old", "p5")}}

\* what may fail while a file is imported
EaaFailures == {"none", "create", "update"}

\* the connection as the server sees it
Connection(committed, pending) == [committed |-> committed, pending |-> pending]

\* connection.commit(), and the implicit commit of a CREATE TABLE
Commit(conn) == Connection(conn.committed \cup conn.pending, {})

\* connection.rollback(), and what connection.close() does to the open
\* transaction
Rollback(conn) == Connection(conn.committed, {})

\* the payment_ids the unique index idx_payment_id holds for this connection
IndexedPaymentIds(conn) == {row.payment_id : row \in conn.committed \cup conn.pending}

\* create_table_if_not_exists, lines 50-81
CreateTableIfNotExists(conn, fail) ==
    IF fail = "create" THEN [ok |-> FALSE, conn |-> conn]
    ELSE [ok |-> TRUE, conn |-> Commit(Commit(conn))]

\* lines 122-134: the INSERTs of the rows from i on; the first row whose
\* payment_id is in the index raises
RECURSIVE InsertRows(_, _, _, _)
InsertRows(file, rows, i, conn) ==
    IF i > Len(rows) THEN [ok |-> TRUE, conn |-> conn]
    ELSE IF rows[i] \in IndexedPaymentIds(conn) THEN [ok |-> FALSE, conn |-> conn]
         ELSE InsertRows(file, rows, i + 1,
                         Connection(conn.committed, conn.pending \cup {EaaRow(file, rows[i])}))

\* import_csv_to_database(csv_file, connection): every exception is caught
\* and False returned; the commit is reached after the last row only
ImportCsvToDatabase(file, conn, fail) ==
    IF ~EaaFiles[file].readable THEN [ok |-> FALSE, conn |-> conn]
    ELSE LET created == CreateTableIfNotExists(conn, fail)
             inserted == InsertRows(file, EaaFiles[file].rows, 1, created.conn)
         IN  IF ~created.ok THEN created
             ELSE IF ~inserted.ok THEN inserted
             ELSE [ok |-> TRUE, conn |-> Commit(inserted.conn)]

\* update_client_ids(connection): the UPDATEs are committed one by one; an
\* error rolls back
UpdateClientIds(conn, fail) == IF fail = "update" THEN Rollback(conn) ELSE Commit(conn)

EaaInit ==
    /\ EngineInit
    /\ probe = NoProbe
    /\ pnc = NoPnc /\ wfi = NoWfi /\ oms = NoOms
    /\ \E input \in SUBSET DOMAIN EaaFiles : \E table \in EaaTables :
          eaa = [NoEaa EXCEPT !.input = input, !.committed = table]

\* main, lines 357-381: the files are listed and the connection opened
EaaMainStart(no_archive, connected) ==
    /\ eaa.pc = "idle"
    /\ eaa' = [eaa EXCEPT !.no_archive = no_archive,
                          !.todo = IF connected THEN eaa.input ELSE {},
                          !.pc = IF eaa.input = {} \/ ~connected THEN "done" ELSE "files"]
    /\ UNCHANGED <<engine_vars, probe, pnc, wfi, oms>>

\* lines 383-408: one file of the loop, in the order glob.glob gives
EaaAfterFile(state, file, out, fail) ==
    LET conn == IF out.ok THEN UpdateClientIds(out.conn, fail) ELSE out.conn
        moved == out.ok /\ ~state.no_archive
    IN  [state EXCEPT !.committed = conn.committed,
                      !.pending = conn.pending,
                      !.todo = @ \ {file},
                      !.successful_imports = IF out.ok THEN @ \cup {file} ELSE @,
                      !.failed_imports = IF out.ok THEN @ ELSE @ \cup {file},
                      !.returned_false = IF out.ok THEN @ ELSE @ \cup {file},
                      !.input = IF moved THEN @ \ {file} ELSE @,
                      !.archive = IF moved THEN @ \cup {file} ELSE @]

EaaProcessFile(file, fail) ==
    /\ eaa.pc = "files"
    /\ file \in eaa.todo
    /\ eaa' = EaaAfterFile(eaa, file,
                           ImportCsvToDatabase(file, Connection(eaa.committed, eaa.pending), fail),
                           fail)
    /\ UNCHANGED <<engine_vars, probe, pnc, wfi, oms>>

\* lines 411-413: connection.close() after the last file
EaaClose ==
    /\ eaa.pc = "files"
    /\ eaa.todo = {}
    /\ eaa' = [eaa EXCEPT !.pc = "done", !.pending = {}]
    /\ UNCHANGED <<engine_vars, probe, pnc, wfi, oms>>

EaaNext ==
    \/ \E no_archive \in BOOLEAN : \E connected \in BOOLEAN :
          EaaMainStart(no_archive, connected)
    \/ \E file \in DOMAIN EaaFiles : \E fail \in EaaFailures : EaaProcessFile(file, fail)
    \/ EaaClose

EaaSpec == EaaInit /\ [][EaaNext]_vars

\* ------------------------------------------------------------------------
\* Properties of process_payment and process_batch
\* ------------------------------------------------------------------------

\* the last process_payment call made, or failed in, a call to one of names
CalledOneOf(names) == \E i \in 1..Len(calls) : calls[i][1] \in names

FailedInOneOf(names) == \E i \in 1..Len(calls) : calls[i] \in names \X {FALSE}

\* the payment the last process_payment call was given
ResultPayment ==
    WfPaymentTable[CHOOSE i \in 1..Len(WfPaymentTable) : WfPaymentTable[i]["ID"] = result.id]

\* C1, as the specification states it: whenever no customer candidate reaches
\* the high threshold and the best client candidate scores 0.50 or more (the
\* 0.95 of a direct account match included), process_payment returns success
\* with "client_match" and the payment is applied.
C1_ClientAtMediumOrAboveIsApplied ==
    (/\ result.kind = "return"
     /\ ~IsHighConfidence(result.best_customer)
     /\ FLeq(MediumConfidenceThreshold, result.best_client))
    => (/\ result.success
        /\ result.match_type = "client_match"
        /\ result.id \in db.applied)

\* C2, as the specification states it: whenever process_payment returns
\* success, create_or_update_payment_az was carried out and after it
\* update_wf_payment_applied_status; the payment is never marked applied
\* before its record is written.
C2_SuccessWritesThenMarks ==
    /\ (result.kind = "return" /\ result.success)
       => \E i, j \in 1..Len(calls) :
             /\ i < j
             /\ calls[i] = <<"create_or_update_payment_az", TRUE>>
             /\ calls[j] = <<"update_wf_payment_applied_status", TRUE>>
    /\ \A j \in 1..Len(calls) :
          calls[j][1] = "update_wf_payment_applied_status"
          => \E i \in 1..(j - 1) : calls[i] = <<"create_or_update_payment_az", TRUE>>

\* C3: every "customer_match" result has a confidence of at least 0.60, every
\* "client_match" result one of at least 0.50, and no payment is written for
\* a candidate that scored below the low threshold 0.40.
C3_AcceptedAtOrAboveThreshold ==
    /\ (result.kind = "return" /\ result.match_type = "customer_match")
       => (result.success /\ FLeq(HighConfidenceThreshold, result.confidence))
    /\ (result.kind = "return" /\ result.match_type = "client_match")
       => (result.success /\ FLeq(MediumConfidenceThreshold, result.confidence))
    /\ CalledOneOf({"create_or_update_payment_az", "update_wf_payment_applied_status"})
       => FLeq(LowConfidenceThreshold,
               IF IsHighConfidence(result.best_customer) THEN result.best_customer
               ELSE result.best_client)

\* a client accepted with a score between the medium and the high threshold
C3_Witness ==
    /\ result.kind = "return"
    /\ result.match_type = "client_match"
    /\ FLt(result.confidence, HighConfidenceThreshold)
    /\ CalledOneOf({"create_or_update_payment_az"})

\* C4: however often a wf record is applied, every create_or_update_payment_az
\* call for it passes the same payment_reference, so the table keyed by the
\* reference gains one row for it and holds that row.
C4_OneRecordPerPayment ==
    \A id \in PaymentIds :
        db.az_log[id].writes > 0
        => /\ Cardinality(db.az_log[id].refs) = 1
           /\ db.az_log[id].inserts <= 1
           /\ db.az_log[id].refs \subseteq DOMAIN db.az

\* a wf record was applied twice
C4_Witness == \E id \in PaymentIds : db.az_log[id].writes >= 2

\* C5, as the specification states it: a payment that fails inside
\* process_batch does not abort the batch; the remaining payments are still
\* processed and the statistics are returned.
C5_FailingPaymentDoesNotAbortBatch ==
    batch.errors > 0
    => /\ batch.outcome # "raised"
       /\ pc = "idle" => (batch.outcome = "stats" /\ batch.attempted = batch.fetched)

\* C5, amended: the exception of a failing payment ends process_batch: the
\* exception is raised again, the payments after it stay unprocessed, and no
\* statistics are returned; the statistics are returned only when every
\* fetched payment was processed without an exception.
C5_FailingPaymentEndsBatch ==
    /\ batch.errors > 0
       => /\ pc = "idle"
          /\ batch.outcome = "raised"
          /\ batch.errors = 1
          /\ batch.attempted + Len(queue) = batch.fetched
    /\ batch.outcome = "stats"
       => (batch.errors = 0 /\ batch.attempted = batch.fetched /\ queue = <<>>)

\* a batch ended by a failing payment with payments left
C5_Witness == batch.errors > 0 /\ queue # <<>> /\ batch.outcome = "raised"

\* C6, as the specification states it: when a candidate lookup fails,
\* process_payment raises the error to its caller.
C6_LookupFailureSurfaces ==
    FailedInOneOf(CustomerLookups \cup ClientLookups) => result.kind = "raise"

\* C6, amended: a failure of get_customers_by_name, of get_customers_by_company
\* or of a client lookup is raised to the caller of process_payment; a failure
\* of get_customer_by_id or of get_customers_by_primary_client_ids is dropped
\* and, nothing else failing, process_payment returns a result.
C6_LookupFailureSurfacesPastDirectStages ==
    /\ FailedInOneOf({"get_customers_by_name", "get_customers_by_company"} \cup ClientLookups)
       => result.kind = "raise"
    /\ (/\ FailedInOneOf({"get_customer_by_id", "get_customers_by_primary_client_ids"})
        /\ Cardinality({i \in 1..Len(calls) : ~calls[i][2]}) = 1)
       => result.kind = "return"

\* a client lookup failed after the customer search had ended
C6_Witness ==
    /\ FailedInOneOf({"get_clients_by_name"})
    /\ CalledOneOf(CustomerLookups)
    /\ result.kind = "raise"

\* C8, as the specification states it: a customer accepted through the direct
\* id shortcut is reported with the match type "direct_id".
C8_DirectIdIsReportedAsDirectId ==
    (/\ result.kind = "return"
     /\ result.success
     /\ IsCustomer(result.entity)
     /\ HasDirectIdMatch(ResultPayment, result.entity))
    => result.match_type = "direct_id"

\* C8, amended: a customer accepted through the direct id shortcut is
\* reported with the match type "customer_match" and the confidence 1.0, like
\* every accepted customer; process_payment never reports "direct_id".
C8_DirectIdIsReportedAsCustomerMatch ==
    /\ (/\ result.kind = "return"
        /\ result.success
        /\ IsCustomer(result.entity)
        /\ HasDirectIdMatch(ResultPayment, result.entity))
       => (result.match_type = "customer_match" /\ result.confidence = One)
    /\ result.match_type # "direct_id"

\* CustID "4021" and the name "J Smith" matched to customer 4021 "John Smith"
C8_Witness ==
    /\ result.kind = "return"
    /\ result.success
    /\ result.id = PyInt(1)
    /\ result.entity = CustomerTable[1]
    /\ HasDirectIdMatch(ResultPayment, result.entity)
    /\ WeightedConfidence(ResultPayment, result.entity) # One

\* C9: process_payment makes no customer lookup and scores no customer after
\* a client lookup or a client scoring; and when the best customer scores 0.60
\* or more it looks up and scores no client, and what it returns is the
\* customer match.
C9_CustomersBeforeClients ==
    /\ \A i, j \in 1..Len(calls) :
          (i < j /\ calls[i][1] \in ClientLookups \cup {"score_client"})
          => calls[j][1] \notin CustomerLookups \cup {"score_customer"}
    /\ IsHighConfidence(result.best_customer)
       => /\ ~CalledOneOf(ClientLookups \cup {"score_client"})
          /\ result.kind = "return"
             => (result.success /\ result.match_type = "customer_match")

\* a payment with a name to look clients up by, stopped at its customer
C9_Witness ==
    /\ result.kind = "return"
    /\ IsHighConfidence(result.best_customer)
    /\ Truthy(Get(ResultPayment, "CustName"))
    /\ CalledOneOf({"score_customer"})
    /\ CalledOneOf({"update_wf_payment_applied_status"})

\* ------------------------------------------------------------------------
\* Properties of the scoring functions
\* ------------------------------------------------------------------------

\* a is a value, and str(a) == str(b)
SameText(a, b) == a # None /\ b # None /\ Str(a) = Str(b)

\* both are truthy, and str(a) == str(b)
SameTruthyText(a, b) == Truthy(a) /\ Truthy(b) /\ Str(a) = Str(b)

\* C7, as the specification states it: the customer confidence is exactly 1.0
\* whenever CustID equals customer_id, or AccountNumber equals
\* primary_client_id, as strings; the client confidence is exactly 0.95
\* whenever an account field equals the client's account_number as a string.
C7_EqualIdsScoreExactly ==
    /\ (/\ probe.stage = "customer"
        /\ \/ SameText(Get(probe.payment, "CustID"), Get(probe.entity, "customer_id"))
           \/ SameText(Get(probe.payment, "AccountNumber"),
                       Get(probe.entity, "primary_client_id")))
       => probe.confidence = One
    /\ (/\ probe.stage = "client"
        /\ \E i \in 1..Len(AccountFields) :
              SameText(Get(probe.payment, AccountFields[i]),
                       Get(probe.entity, "account_number")))
       => probe.confidence = DirectAccountScore

\* C7, amended: the exact scores are given whenever the two identifiers are
\* equal as strings and neither is None, empty or zero.
C7_TruthyEqualIdsScoreExactly ==
    /\ (/\ probe.stage = "customer"
        /\ \/ SameTruthyText(Get(probe.payment, "CustID"), Get(probe.entity, "customer_id"))
           \/ SameTruthyText(Get(probe.payment, "AccountNumber"),
                             Get(probe.entity, "primary_client_id")))
       => probe.confidence = One
    /\ (/\ probe.stage = "client"
        /\ \E i \in 1..Len(AccountFields) :
              SameTruthyText(Get(probe.payment, AccountFields[i]),
                             Get(probe.entity, "account_number")))
       => probe.confidence = DirectAccountScore

\* AccountNumber equal to the primary client id of a customer whose other
\* fields would score less
C7_Witness ==
    /\ probe.stage = "customer"
    /\ SameTruthyText(Get(probe.payment, "AccountNumber"),
                      Get(probe.entity, "primary_client_id"))
    /\ ~SameText(Get(probe.payment, "CustID"), Get(probe.entity, "customer_id"))
    /\ WeightedConfidence(probe.payment, probe.entity) # One
    /\ probe.confidence = One

\* C10: calculate_customer_match_confidence, calculate_client_match_confidence
\* and the confidence process_payment returns are all in [0, 1].
C10_ConfidenceInUnitInterval ==
    probe.stage \in {"customer", "client", "process"}
    => (FLeq(Zero, probe.confidence) /\ FLeq(probe.confidence, One))

\* name, company and account all equal without a direct id: the weights add
\* up to the top of the range
C10_Witness ==
    /\ probe.stage = "customer"
    /\ ~probe.direct
    /\ probe.confidence = One

\* ------------------------------------------------------------------------
\* Properties of the tier predicates
\* ------------------------------------------------------------------------

\* C11: every score in [0, 1] satisfies at most one of is_high_confidence,
\* is_medium_confidence and is_low_confidence: high from 0.60, medium in
\* [0.50, 0.60), low in [0.40, 0.50), none of them below 0.40; the boundary
\* values belong to the upper tier.
C11_TiersPartitionScores ==
    probe.stage = "tier"
    => /\ Cardinality(probe.tiers) <= 1
       /\ "high" \in probe.tiers <=> FLeq(Frac(60, 100), probe.confidence)
       /\ "medium" \in probe.tiers
          <=> (FLeq(Frac(50, 100), probe.confidence) /\ FLt(probe.confidence, Frac(60, 100)))
       /\ "low" \in probe.tiers
          <=> (FLeq(Frac(40, 100), probe.confidence) /\ FLt(probe.confidence, Frac(50, 100)))
       /\ probe.tiers = {} <=> FLt(probe.confidence, Frac(40, 100))

\* the boundary 0.60 classified
C11_Witness ==
    probe.stage = "tier" /\ probe.confidence = Frac(60, 100) /\ probe.tiers = {"high"}

\* ------------------------------------------------------------------------
\* Properties of the similarity functions
\* ------------------------------------------------------------------------

\* C16, as the specification states it: calculate_name_similarity and
\* calculate_account_similarity give the same score for (a, b) and (b, a),
\* and so do the containment, token-set and character-sequence sub-scores.
C16_SimilarityIsSymmetric ==
    /\ probe.stage = "name"
       => /\ probe.confidence = CalculateNameSimilarity(probe.text2.s, probe.text1.s)
          /\ CheckContains(NormalizeString(probe.text1.s), NormalizeString(probe.text2.s))
             = CheckContains(NormalizeString(probe.text2.s), NormalizeString(probe.text1.s))
          /\ CheckTokenMatch(NormalizeString(probe.text1.s), NormalizeString(probe.text2.s))
             = CheckTokenMatch(NormalizeString(probe.text2.s), NormalizeString(probe.text1.s))
          /\ CheckSequenceMatch(NormalizeString(probe.text1.s), NormalizeString(probe.text2.s))
             = CheckSequenceMatch(NormalizeString(probe.text2.s), NormalizeString(probe.text1.s))
    /\ probe.stage = "account"
       => probe.confidence = CalculateAccountSimilarity(probe.text2.s, probe.text1.s)

\* C17, as the specification states it: for every string s the name
\* similarity and the account similarity of s with itself are 1.0.
C17_SelfSimilarityIsOne ==
    (/\ probe.stage \in {"name", "account"}
     /\ probe.text1.t = "str"
     /\ probe.text1 = probe.text2)
    => probe.confidence = One

\* C17, amended: for every non-empty string s the name similarity and the
\* account similarity of s with itself are 1.0; for the empty string they
\* are 0.0.
C17_NonEmptySelfSimilarityIsOne ==
    (/\ probe.stage \in {"name", "account"}
     /\ probe.text1.t = "str"
     /\ probe.text1 = probe.text2)
    => probe.confidence = (IF probe.text1.s = <<>> THEN Zero ELSE One)

\* an account number compared with itself
C17_Witness ==
    /\ probe.stage = "account"
    /\ probe.text1 = PyStr(<<"9", "-", "0">>)
    /\ probe.text2 = probe.text1
    /\ probe.confidence = One

\* C18: calculate_name_similarity and calculate_account_similarity return 0.0
\* whenever either argument is None or the empty string, whatever the other
\* is, both empty included.
C18_EmptyArgumentScoresZero ==
    (/\ probe.stage \in {"name", "account"}
     /\ (probe.text1 \in {None, PyStr(<<>>)} \/ probe.text2 \in {None, PyStr(<<>>)}))
    => probe.confidence = Zero

\* both names empty
C18_Witness ==
    /\ probe.stage = "name"
    /\ probe.text1 = PyStr(<<>>)
    /\ probe.text2 = PyStr(<<>>)
    /\ probe.confidence = Zero

\* one of the two normalized accounts is a substring of the other
AccountContained(a1, a2) == Contains(a1, a2) \/ Contains(a2, a1)

\* C19, as the specification states it: for two non-empty accounts whose
\* normalized forms differ, calculate_account_similarity returns 0.8 x the
\* ratio of the sequence matcher when neither contains the other, and
\* 0.8 x shorter length / longer length when one contains the other.
C19_AccountSequenceScaledByEightTenths ==
    (/\ probe.stage = "account"
     /\ Truthy(probe.text1) /\ Truthy(probe.text2)
     /\ NormalizeAccount(probe.text1.s) # NormalizeAccount(probe.text2.s))
    => probe.confidence =
         (IF AccountContained(NormalizeAccount(probe.text1.s), NormalizeAccount(probe.text2.s))
          THEN FMul(Frac(8, 10),
                    Frac(Min(Len(NormalizeAccount(probe.text1.s)),
                             Len(NormalizeAccount(probe.text2.s))),
                         Max(Len(NormalizeAccount(probe.text1.s)),
                             Len(NormalizeAccount(probe.text2.s)))))
          ELSE FMul(Frac(8, 10),
                    SequenceRatio(NormalizeAccount(probe.text1.s),
                                  NormalizeAccount(probe.text2.s))))

\* C19, amended: when neither normalized account contains the other the
\* score is 0.8 x _check_sequence_match, which is itself 0.9 x the ratio of
\* the sequence matcher: 0.72 x the ratio; the containment score is as stated.
C19_AccountSequenceScaledTwice ==
    (/\ probe.stage = "account"
     /\ Truthy(probe.text1) /\ Truthy(probe.text2)
     /\ NormalizeAccount(probe.text1.s) # NormalizeAccount(probe.text2.s))
    => probe.confidence =
         (IF AccountContained(NormalizeAccount(probe.text1.s), NormalizeAccount(probe.text2.s))
          THEN FMul(Frac(8, 10),
                    Frac(Min(Len(NormalizeAccount(probe.text1.s)),
                             Len(NormalizeAccount(probe.text2.s))),
                         Max(Len(NormalizeAccount(probe.text1.s)),
                             Len(NormalizeAccount(probe.text2.s)))))
          ELSE FMul(Frac(72, 100),
                    SequenceRatio(NormalizeAccount(probe.text1.s),
                                  NormalizeAccount(probe.text2.s))))

\* "tide" against "diet": ratio 0.25, neither contains the other
C19_Witness ==
    /\ probe.stage = "account"
    /\ probe.text1 = PyStr(<<"t", "i", "d", "e">>)
    /\ probe.text2 = PyStr(<<"d", "i", "e", "t">>)
    /\ probe.confidence = Frac(18, 100)

\* the words of a name without case and punctuation, a leading honorific
\* left out: what two names must share to differ only in the ways C20 lists
DropHonorific(tokens) ==
    IF tokens # <<>> /\ Head(tokens) \in SeqToSet(Prefixes) THEN Tail(tokens) ELSE tokens

NameWords(text) ==
    DropHonorific(Split(KeepChars(ToLower(text), LowerChars \cup DigitChars \cup SpaceChars)))

\* C20, as the specification states it: calculate_name_similarity returns
\* 1.0 for two names that differ only by letter case, a leading honorific
\* with or without a period, punctuation, or whitespace.
C20_NormalizedNamesScoreOne ==
    (/\ probe.stage = "name"
     /\ Truthy(probe.text1) /\ Truthy(probe.text2)
     /\ NameWords(probe.text1.s) = NameWords(probe.text2.s))
    => probe.confidence = One

\* ------------------------------------------------------------------------
\* Properties of the weighted confidence
\* ------------------------------------------------------------------------

\* the largest of a finite set of scores, 0.0 for the empty set
LargestScore(scores) ==
    CHOOSE x \in scores \cup {Zero} : \A y \in scores \cup {Zero} : FLeq(y, x)

\* the similarity of two name (or company) fields, 0.0 when one is missing
FieldScore(payment_value, entity_value) ==
    IF ~Truthy(payment_value) \/ ~Truthy(entity_value) THEN Zero
    ELSE CalculateNameSimilarity(payment_value.s, entity_value.s)

\* the account an entity is compared by: the primary client id of a customer,
\* the account number of a client
EntityAccount(entity) ==
    IF Truthy(Get(entity, "primary_client_id")) THEN Get(entity, "primary_client_id")
    ELSE Get(entity, "account_number")

\* the largest account similarity over the five account fields of the
\* payment, 0.0 when the entity has no account or the payment no account field
AccountScore(payment, entity_account) ==
    IF ~Truthy(entity_account) THEN Zero
    ELSE LargestScore({CalculateAccountSimilarity(Str(payment[f]), Str(entity_account)) :
                          f \in {g \in {"AccountNumber", "FullSubAccount", "ACCT", "AcctNo",
                                        "SubAccount"} : Truthy(Get(payment, g))}})

\* the payment has no name, no company and no account field
Featureless(payment) ==
    /\ ~Truthy(Get(payment, "CustName"))
    /\ ~Truthy(Get(payment, "CompName"))
    /\ \A f \in {"AccountNumber", "FullSubAccount", "ACCT", "AcctNo", "SubAccount"} :
          ~Truthy(Get(payment, f))

\* C12: when no direct identifier match applies, the confidence is
\* 0.35 x name similarity + 0.25 x company similarity + 0.40 x account
\* similarity, a sub-score being 0.0 when its field is missing on either side
\* and the account sub-score the largest over the payment's account fields; a
\* payment with no name, company and account field scores 0.0 against every
\* candidate, and process_payment returns "no_match" for it.
C12_WeightedSumOfSubScores ==
    /\ (probe.stage \in {"customer", "client"} /\ ~probe.direct)
       => /\ probe.confidence =
               FAdd(FAdd(FMul(Frac(35, 100),
                              FieldScore(Get(probe.payment, "CustName"),
                                         Get(probe.entity, "name"))),
                         FMul(Frac(25, 100),
                              FieldScore(Get(probe.payment, "CompName"),
                                         Get(probe.entity, "company")))),
                    FMul(Frac(40, 100),
                         AccountScore(probe.payment, EntityAccount(probe.entity))))
          /\ Featureless(probe.payment) => probe.confidence = Zero
    /\ (/\ probe.stage = "process"
        /\ Featureless(probe.payment)
        /\ Get(probe.payment, "CustID").t # "int"
        /\ \A i \in 1..Len(CustomerTable) : ~HasDirectIdMatch(probe.payment, CustomerTable[i]))
       => (probe.match_type = "no_match" /\ probe.confidence = Zero)

\* the account of the customer found in the second account field only, name
\* and company scoring as well
C12_Witness ==
    /\ probe.stage = "customer"
    /\ ~probe.direct
    /\ ~Truthy(Get(probe.payment, "AccountNumber"))
    /\ Truthy(Get(probe.payment, "ACCT"))
    /\ Truthy(Get(probe.payment, "CustName"))
    /\ ~Truthy(Get(probe.payment, "CompName"))
    /\ probe.confidence = Frac(75, 100)

\* ------------------------------------------------------------------------
\* Properties of the customer search
\* ------------------------------------------------------------------------

\* value is text that is not a number
NonNumericText(value) == value.t = "str" /\ Truthy(value) /\ ~IsDigit(value.s)

\* the account fields of wf_payment whose text is a number
NumericAccountFields(wf_payment) ==
    {i \in 1..Len(LookupAccountFields) :
        LET value == Get(wf_payment, LookupAccountFields[i])
        IN  Truthy(value) /\ IsDigit(Str(value))}

\* how many calls of name the last process_payment made
CallCount(name) == Cardinality({i \in 1..Len(calls) : calls[i][1] = name})

\* C13: for a payment whose CustID or account field holds text that is not a
\* number, the customer search does not raise; it makes no get_customer_by_id
\* call for such a CustID and no get_customers_by_primary_client_ids call for
\* such a field, and it goes on to the name and the company lookups, so that
\* process_payment returns a result when no call it makes fails.
C13_NonNumericIdFallsThrough ==
    (/\ result.kind # "none"
     /\ \/ NonNumericText(Get(ResultPayment, "CustID"))
        \/ \E i \in 1..Len(LookupAccountFields) :
              NonNumericText(Get(ResultPayment, LookupAccountFields[i])))
    => /\ ~FindCustomerMatch(ResultPayment, {}, account_ids, <<>>).exc
       /\ NonNumericText(Get(ResultPayment, "CustID"))
          => ~CalledOneOf({"get_customer_by_id"})
       /\ CallCount("get_customers_by_primary_client_ids")
             <= Cardinality(NumericAccountFields(ResultPayment))
       /\ (Truthy(Get(ResultPayment, "CustName")) /\ ~IsHighConfidence(result.best_customer))
          => CalledOneOf({"get_customers_by_name"})
       /\ (/\ Truthy(Get(ResultPayment, "CompName"))
           /\ ~IsHighConfidence(result.best_customer)
           /\ result.kind = "return")
          => CalledOneOf({"get_customers_by_company"})
       /\ (\A i \in 1..Len(calls) : calls[i][2]) => result.kind = "return"

\* a payment with "n/a" for its CustID and its AccountNumber, looked up by
\* name and by company
C13_Witness ==
    /\ result.kind = "return"
    /\ NonNumericText(Get(ResultPayment, "CustID"))
    /\ NonNumericText(Get(ResultPayment, "AccountNumber"))
    /\ ~CalledOneOf({"get_customer_by_id", "get_customers_by_primary_client_ids"})
    /\ CalledOneOf({"get_customers_by_name"})
    /\ CalledOneOf({"get_customers_by_company"})

\* the lookup whose candidates were being scored at entry i of the trace
StageOf(i) ==
    LET before == {j \in 1..(i - 1) : calls[j][1] \in CustomerLookups \cup ClientLookups}
    IN  calls[CHOOSE j \in before : \A k \in before : k <= j][1]

\* the two lookups of _find_customer_match that sit in "try: ... except: pass"
GuardedLookups == {"get_customer_by_id", "get_customers_by_primary_client_ids"}

\* entry i of the trace is a scoring call that raised
ScoringRaisedAt(i) == calls[i][1] \in ScoringCalls /\ ~calls[i][2]

\* entry i of the trace raised inside one of the two try blocks
DroppedAt(i) ==
    /\ ~calls[i][2]
    /\ \/ calls[i][1] \in GuardedLookups
       \/ calls[i][1] = "score_customer" /\ StageOf(i) \in GuardedLookups

C14_DroppedWitness ==
    /\ result.kind = "return"
    /\ \E i \in 1..Len(calls) : ScoringRaisedAt(i) /\ DroppedAt(i)
    /\ CalledOneOf(ClientLookups)

\* ------------------------------------------------------------------------
\* Properties of repeated batches
\* ------------------------------------------------------------------------

\* run went through all the payments it fetched, no call it made failing
Completed(run) == run.outcome = "stats" /\ run.clean

\* C15: two consecutive process_batch calls that fetch the same unapplied
\* payments and complete without a failing call return the same (success,
\* match type, confidence) for every payment and the same statistics; the
\* counters are zero when a batch starts on its first payment.
C15_RepeatedBatchRepeatsResults ==
    /\ (Completed(batch.run) /\ Completed(batch.prev) /\ batch.run.ids = batch.prev.ids)
       => /\ batch.run.results = batch.prev.results
          /\ batch.run.stats = batch.prev.stats
    /\ (pc = "batch" /\ batch.attempted = 0) => stats = ZeroStats

\* a payment left unapplied by one batch was processed again by the next
C15_Witness ==
    /\ Completed(batch.run)
    /\ Completed(batch.prev)
    /\ batch.run.ids = batch.prev.ids
    /\ batch.run.ids # <<>>
    /\ batch.run.stats["total_processed"] = Len(batch.run.ids)

\* ------------------------------------------------------------------------
\* Properties of the two searches
\* ------------------------------------------------------------------------

RECURSIVE Flatten(_)
Flatten(lists) == IF lists = <<>> THEN <<>> ELSE Head(lists) \o Flatten(Tail(lists))

\* the customers the lookups of _find_customer_match yield for wf_payment, in
\* the order of the lookups
DiscoveredCustomers(wf_payment) ==
    LET cust_id == Get(wf_payment, "CustID")
        ByField(i) ==
            LET value == Get(wf_payment, LookupAccountFields[i])
            IN  IF Truthy(value) /\ IsDigit(Str(value)) /\ ParseNat(Str(value)) \in AccountIdTable
                THEN GetCustomersByPrimaryClientIds(ParseNat(Str(value)))
                ELSE <<>>
    IN  Flatten(<<IF Truthy(cust_id) /\ IsDigit(cust_id.s)
                  THEN GetCustomerById(ParseNat(cust_id.s)) ELSE <<>>,
                  ByField(1), ByField(2), ByField(3), ByField(4),
                  IF Truthy(Get(wf_payment, "CustName"))
                  THEN GetCustomersByName(wf_payment["CustName"]) ELSE <<>>,
                  IF Truthy(Get(wf_payment, "CompName"))
                  THEN GetCustomersByCompany(wf_payment["CompName"]) ELSE <<>>>>)

\* the clients the lookups of _find_client_match yield, in their order
DiscoveredClients(wf_payment) ==
    LET ByField(i) ==
            LET value == Get(wf_payment, LookupAccountFields[i])
            IN  IF Truthy(value) THEN GetClientByAccountNumber(Str(value)) ELSE <<>>
    IN  Flatten(<<ByField(1), ByField(2), ByField(3), ByField(4),
                  IF Truthy(Get(wf_payment, "CustName"))
                  THEN GetClientsByName(wf_payment["CustName"]) ELSE <<>>,
                  IF Truthy(Get(wf_payment, "CompName"))
                  THEN GetClientsByCompany(wf_payment["CompName"]) ELSE <<>>>>)

\* the candidates of the search made on the drawn payment, and their scores
Discovered ==
    IF probe.stage = "customers" THEN DiscoveredCustomers(probe.payment)
    ELSE DiscoveredClients(probe.payment)

DiscoveredScore(i) ==
    IF probe.stage = "customers"
    THEN CalculateCustomerMatchConfidence(probe.payment, Discovered[i])
    ELSE CalculateClientMatchConfidence(probe.payment, Discovered[i])

\* the candidates at or above the high threshold, and those of the largest score
HighOnes == {i \in 1..Len(Discovered) : IsHighConfidence(DiscoveredScore(i))}

BestOnes ==
    {i \in 1..Len(Discovered) :
        \A j \in 1..Len(Discovered) : FLeq(DiscoveredScore(j), DiscoveredScore(i))}

Earliest(S) == CHOOSE i \in S : \A j \in S : i <= j

\* C23: a search that does not raise returns the first candidate, in the
\* order of discovery, that scores 0.60 or more, if there is one; otherwise the
\* earliest of the candidates with the largest score, and that score; and it
\* returns (None, 0.0) exactly when no candidate scores above 0.
C23_FirstHighElseEarliestBest ==
    (probe.stage \in {"customers", "clients"} /\ ~probe.search.exc)
    => /\ HighOnes # {}
          => /\ probe.search.best = Discovered[Earliest(HighOnes)]
             /\ probe.search.conf = DiscoveredScore(Earliest(HighOnes))
       /\ (HighOnes = {} /\ \E i \in 1..Len(Discovered) : FLt(Zero, DiscoveredScore(i)))
          => /\ probe.search.best = Discovered[Earliest(BestOnes)]
             /\ probe.search.conf = DiscoveredScore(Earliest(BestOnes))
       /\ (probe.search.best = NoMatch /\ probe.search.conf = Zero)
          <=> \A i \in 1..Len(Discovered) : DiscoveredScore(i) = Zero
       /\ probe.search.best = NoMatch <=> probe.search.conf = Zero

\* three candidates were discovered, none at 0.60, and the one returned is
\* neither the first nor the last of them
C23_Witness ==
    /\ probe.stage = "customers"
    /\ ~probe.search.exc
    /\ HighOnes = {}
    /\ Len(Discovered) >= 3
    /\ Earliest(BestOnes) \notin {1, Len(Discovered)}
    /\ probe.search.best = Discovered[Earliest(BestOnes)]

\* the place of a lookup in the priority order of its search
LookupRank(name) ==
    CASE name = "get_customer_by_id" -> 1
      [] name = "get_customers_by_primary_client_ids" -> 2
      [] name = "get_customers_by_name" -> 3
      [] name = "get_customers_by_company" -> 4
      [] name = "get_client_by_account_number" -> 1
      [] name = "get_clients_by_name" -> 2
      [] name = "get_clients_by_company" -> 3

\* the calls the search on the drawn payment made, and the lookups among them
SearchCalls == probe.search.calls

LookupsMade == {i \in 1..Len(SearchCalls) : SearchCalls[i][1] \in CustomerLookups \cup ClientLookups}

\* how many candidates had been scored before call i
ScoredBefore(i) == Cardinality({k \in 1..(i - 1) : SearchCalls[k][1] \in ScoringCalls})

\* C24: the lookups of a search are issued in the priority order (customers:
\* id, account membership, name, company; clients: account number, name,
\* company), each from the repository of its search, and a lookup is issued
\* only when no candidate scored before it reached the high threshold.
C24_LookupsInPriorityOrder ==
    (probe.stage \in {"customers", "clients"} /\ ~probe.search.exc)
    => /\ \A i \in LookupsMade :
             SearchCalls[i][1] \in (IF probe.stage = "customers" THEN CustomerLookups
                                    ELSE ClientLookups)
       /\ \A i, j \in LookupsMade :
             i < j => LookupRank(SearchCalls[i][1]) <= LookupRank(SearchCalls[j][1])
       /\ \A i \in LookupsMade :
             \A k \in 1..ScoredBefore(i) : ~IsHighConfidence(DiscoveredScore(k))
       /\ HighOnes = {}
          => /\ Truthy(Get(probe.payment, "CustName"))
                => \E i \in LookupsMade :
                      SearchCalls[i][1] \in {"get_customers_by_name", "get_clients_by_name"}
             /\ Truthy(Get(probe.payment, "CompName"))
                => \E i \in LookupsMade :
                      SearchCalls[i][1] \in {"get_customers_by_company", "get_clients_by_company"}

\* a customer found by account membership scored 0.60 or more, and the
\* lookups by name and by company, for which the payment has values, were
\* not issued
C24_Witness ==
    /\ probe.stage = "customers"
    /\ ~probe.search.exc
    /\ HighOnes # {}
    /\ Truthy(Get(probe.payment, "CustName"))
    /\ Truthy(Get(probe.payment, "CompName"))
    /\ \E i \in LookupsMade : SearchCalls[i][1] = "get_customers_by_primary_client_ids"
    /\ \A i \in LookupsMade : LookupRank(SearchCalls[i][1]) <= 2

\* ------------------------------------------------------------------------
\* Properties of the statistics
\* ------------------------------------------------------------------------

\* every payment counted has one outcome counted
OutcomesAddUp ==
    stats["total_processed"]
        = stats["customer_matches"] + stats["client_matches"] + stats["no_matches"]

\* every match counted has its tier counted
TiersAddUp ==
    stats["high_confidence"] + stats["medium_confidence"]
        = stats["customer_matches"] + stats["client_matches"]

\* C25, as the specification states it: once initialize() has run, between
\* process_payment calls the counters satisfy total_processed =
\* customer_matches + client_matches + no_matches and high_confidence +
\* medium_confidence = customer_matches + client_matches, whatever the
\* payments were, those without an ID and those that raised included.
C25_CountersAddUp ==
    account_ids.loaded => (OutcomesAddUp /\ TiersAddUp)

\* ------------------------------------------------------------------------
\* Properties of the payment reference
\* ------------------------------------------------------------------------

\* the row of the wf table with this id
RowOf(id) == WfPaymentTable[CHOOSE i \in 1..Len(WfPaymentTable) : WfPaymentTable[i]["ID"] = id]

\* the BankReference of the payment when it has one, its ID when it has none
OwnReference(wf_payment) ==
    IF Truthy(Get(wf_payment, "BankReference")) THEN Str(wf_payment["BankReference"])
    ELSE Str(wf_payment["ID"])

\* both payments carry a BankReference, the same one
SameBankReference(p, q) ==
    /\ Truthy(Get(p, "BankReference"))
    /\ Truthy(Get(q, "BankReference"))
    /\ p["BankReference"] = q["BankReference"]

\* C26, as the specification states it: every payment is written under its
\* BankReference when it has one and under its own ID when it has none, so two
\* payments of different ID that do not carry the same BankReference are
\* never written under the same payment_reference.
C26_ReferencesDoNotCollide ==
    /\ \A id \in PaymentIds \ {None} :
          db.az_log[id].refs \subseteq {OwnReference(RowOf(id))}
    /\ \A id1, id2 \in PaymentIds \ {None} :
          (id1 # id2 /\ ~SameBankReference(RowOf(id1), RowOf(id2)))
          => db.az_log[id1].refs \cap db.az_log[id2].refs = {}

\* two payments of different ID, neither with a BankReference, were written
\* under one payment_reference
C26_Collision ==
    \E id1, id2 \in PaymentIds \ {None} :
        /\ id1 # id2
        /\ ~Truthy(Get(RowOf(id1), "BankReference"))
        /\ ~Truthy(Get(RowOf(id2), "BankReference"))
        /\ db.az_log[id1].refs \cap db.az_log[id2].refs # {}

\* ------------------------------------------------------------------------
\* Properties of PNCImporter
\* ------------------------------------------------------------------------

\* C22, as the specification states it: a run in test mode changes nothing: the
\* table, the input directory and the archive directory are as before it.
C22_TestModeChangesNothing ==
    pnc.test_mode
    => /\ pnc.table = pnc.before.table
       /\ pnc.input = pnc.before.input
       /\ pnc.archive = pnc.before.archive

\* C28, as the specification states it: after a run, no Reference is stored
\* twice in the table, which held none twice before.
C28_NoReferenceStoredTwice ==
    pnc.pc = "idle"
    => \A i, j \in 1..Len(pnc.table) : pnc.table[i] = pnc.table[j] => i = j

\* the References a file holds, as insert_records gets them
ReferencesOf(name) ==
    {CleanReference(PncFiles[name].rows[i].Reference) : i \in 1..Len(PncFiles[name].rows)}

\* C29, as the specification states it: outside test mode, after a run that
\* returned, a file that is no longer in the input directory has every one
\* of its records in the table.
C29_RemovedFilesAreInserted ==
    (pnc.pc = "idle" /\ ~pnc.test_mode /\ pnc.outcome = "stats")
    => \A name \in pnc.before.input \ pnc.input :
          ReferencesOf(name) \subseteq {pnc.table[i] : i \in 1..Len(pnc.table)}

\* ------------------------------------------------------------------------
\* Properties of the Wells Fargo importer
\* ------------------------------------------------------------------------

\* the rows of the file imported last that are of a type kept and have a
\* BankReference
LastRows ==
    LET Kept(row) == row.relevant /\ row.BankReference # ""
    IN  IF wfi.last.name = "" THEN <<>> ELSE SelectSeq(WfiFiles[wfi.last.name].rows, Kept)

\* how many of the rows have a BankReference that is, or is not, in the table
Stored(rows, table) == Cardinality({i \in 1..Len(rows) : rows[i].BankReference \in table})

\* nothing was written and no file was moved since the scan began
ScanChangedNothing ==
    /\ wfi.table = wfi.before.table
    /\ wfi.writes = wfi.before.writes
    /\ wfi.input = wfi.before.input
    /\ wfi.processed = wfi.before.processed

C27_ReturnsAttemptedAndMarked ==
    oms.returned # <<>>
    => /\ oms.returned[1] = Len(oms.attempted)
       /\ oms.returned[2] = Len(oms.marked)
       /\ oms.returned[2] <= oms.returned[1]

\* a call that was interrupted after it had marked a payment applied
C27_Interrupted ==
    /\ oms.returned # <<>>
    /\ Len(oms.marked) > 0
    /\ Len(oms.attempted) > Len(oms.marked)
    /\ oms.returned = <<0, 0>>

\* without an interruption the counts returned are those of the call
C27_ReturnsCountsOfFullRun ==
    oms.returned # <<>> /\ oms.returned # <<0, 0>>
    => /\ oms.returned[1] = Len(oms.attempted)
       /\ oms.returned[2] = Len(oms.marked)

\* ------------------------------------------------------------------------
\* Properties of the EAA importer
\* ------------------------------------------------------------------------

\* C30: when import_csv_to_database returned False for a file, none of the
\* rows of that file is committed to eaa_payments, neither then nor later
\* in the run.
C30_FailedFileCommitsNothing ==
    \A row \in eaa.committed : row.file \notin eaa.returned_false

\* rows of a file whose import returned False were committed by the import
\* of a later file
C30_CommittedLater ==
    /\ eaa.pc = "done"
    /\ \E row \in eaa.committed : row.file \in eaa.returned_false /\ row.file \notin eaa.successful_imports
    /\ eaa.successful_imports # {}

\* at the moment import_csv_to_database returns False the rows it inserted
\* are in the open transaction: none is committed, none is rolled back
C30_FailedFileStaysPending ==
    [][\A file \in DOMAIN EaaFiles :
         EaaProcessFile(file, "none") /\ file \in eaa'.returned_false
         => /\ \A row \in eaa'.committed : row.file # file
            /\ EaaFiles[file].readable
               => /\ eaa'.committed = eaa.committed \cup eaa.pending
                  /\ \A row \in eaa'.pending : row.file = file]_vars

====
